---- MODULE Spec2Model ----
(***************************************************************************)
(* A model of the log doctor of mintmaker (internal/pkg/doctor): the       *)
(* finding report, the selector registry and the classification loop, the  *)
(* handler catalog, the error-message compactor (ExtractUsefulError) and   *)
(* the level-based summary (checkLogs).                                    *)
(*                                                                         *)
(* Go strings that are only formatted and compared are TLA+ strings        *)
(* (concatenated with \o).  Strings that the code searches, splits or      *)
(* trims are sequences of tokens: a token is a run of characters the code  *)
(* never looks inside ("\n" and " " are tokens of their own).              *)
(***************************************************************************)
EXTENDS Integers, Sequences, FiniteSets, TLC

VARIABLES
    Selectors, \* the registry: selector (a token sequence) -> name of its check function
    report,    \* the SimpleReport: [Errors, Warnings, Infos], sequences of strings
    last,      \* the last report call made directly: [op, formatted]
    logs,      \* ProcessLogsWithMessageChecks: the records handed in
    idx,       \* ... index of the record of the outer loop (1-based)
    pending,   \* ... selectors of the inner loop not yet visited for logs[idx]
    pcC,       \* ... "idle", "run", "returned" or "panicked"
    invoked,   \* ... every handler invocation made so far: <<idx, selector>>
    walk,      \* ExtractUsefulError: the locals of one call
    cl,        \* checkLogs: the locals of one call
    ps,        \* processLogStream: the pod's log streams and the locals of one call
    hp,        \* handlePipelinerunCompletion: the PipelineRun and the calls made
    ef         \* the controller's event filter: the event and what became of it

vars == <<Selectors, report, last, logs, idx, pending, pcC, invoked, walk, cl, ps, hp, ef>>

(***************************************************************************)
(* Untyped values (interface{} / any) as decoded from JSON.                *)
(***************************************************************************)
Nil == [t |-> "nil"]
\* A string value is a sequence of tokens; S(x) is the one-token string x.
Str(q) == [t |-> "string", q |-> q]
S(x) == Str(<<x>>)
Num(n) == [t |-> "number", n |-> n]
Map(m) == [t |-> "map", m |-> m]
List(q) == [t |-> "list", q |-> q]

\* The order in which fmt prints the keys of a map (sorted by key).
KeyOrder == <<"branchName", "extends", "message", "options", "prNo", "prTitle", "result", "task", "timeout", "topic">>

\* m[k] of a Go map: the zero value (nil) when the key is absent.
Get(m, k) == IF k \in DOMAIN m THEN m[k] ELSE Nil

RECURSIVE Flat(_)
\* The Go string a token sequence stands for.
Flat(q) == IF q = <<>> THEN "" ELSE Head(q) \o Flat(Tail(q))

RECURSIVE FmtV(_)
RECURSIVE FmtMapFrom(_, _, _)
RECURSIVE FmtListFrom(_, _)

\* fmt's %v of a value.
FmtV(v) ==
    CASE v.t = "nil" -> "<nil>"
      [] v.t = "string" -> Flat(v.q)
      [] v.t = "number" -> ToString(v.n)
      [] v.t = "map" -> "map[" \o FmtMapFrom(v.m, 1, TRUE) \o "]"
      [] v.t = "list" -> "[" \o FmtListFrom(v.q, 1) \o "]"

FmtMapFrom(m, i, first) ==
    IF i > Len(KeyOrder) THEN ""
    ELSE IF KeyOrder[i] \in DOMAIN m
         THEN (IF first THEN "" ELSE " ") \o KeyOrder[i] \o ":" \o FmtV(m[KeyOrder[i]])
                  \o FmtMapFrom(m, i + 1, FALSE)
         ELSE FmtMapFrom(m, i + 1, first)

FmtListFrom(q, i) ==
    IF i > Len(q) THEN ""
    ELSE (IF i > 1 THEN " " ELSE "") \o FmtV(q[i]) \o FmtListFrom(q, i + 1)

\* fmt's %s of a value: as %v, except that a non-string scalar is flagged.
FmtS(v) ==
    CASE v.t = "nil" -> "%!s(<nil>)"
      [] v.t = "number" -> "%!s(float64=" \o ToString(v.n) \o ")"
      [] OTHER -> FmtV(v)

(***************************************************************************)
(* report.go: the finding report.                                          *)
(***************************************************************************)
EmptyReport == [Errors |-> <<>>, Warnings |-> <<>>, Infos |-> <<>>]

RECURSIVE FormatFieldsFrom(_, _)
\* The loop of formatSimpleMessage; i is the 0-based index of the Go loop.
FormatFieldsFrom(fields, i) ==
    IF i >= Len(fields) THEN ""
    ELSE (IF i + 1 < Len(fields)
          THEN LET key == FmtV(fields[i + 1])
                   value == FmtV(fields[i + 2])
               IN  IF key = "Message"
                   THEN "\n" \o key \o ": " \o value \o "\n"
                   ELSE " | " \o key \o ": " \o value
          ELSE "") \o FormatFieldsFrom(fields, i + 2)

formatSimpleMessage(msg, fields) ==
    IF Len(fields) = 0 THEN msg ELSE msg \o FormatFieldsFrom(fields, 0)

\* slices.Contains
Contains(s, e) == \E i \in 1..Len(s) : s[i] = e

\* A mutant: Error skips a text that is present, as Warning does.
Error_Dedup(r, msg, fields) ==
    IF \E i \in 1..Len(r.Errors) : r.Errors[i] = formatSimpleMessage(msg, fields)
    THEN r
    ELSE [r EXCEPT !.Errors = Append(@, formatSimpleMessage(msg, fields))]

Error(r, msg, fields) ==
    [r EXCEPT !.Errors = Append(@, formatSimpleMessage(msg, fields))]

\* A Warning that appends without looking for an equal entry.
Warning_NoDedup(r, msg, fields) ==
    [r EXCEPT !.Warnings = Append(@, formatSimpleMessage(msg, fields))]

\* A mutant: a Warning is dropped once the report holds an Error.
Warning_UnlessErrors(r, msg, fields) ==
    IF r.Errors # <<>> \/ Contains(r.Warnings, formatSimpleMessage(msg, fields))
    THEN r
    ELSE [r EXCEPT !.Warnings = Append(@, formatSimpleMessage(msg, fields))]

Warning(r, msg, fields) ==
    LET formatted == formatSimpleMessage(msg, fields)
    IN  IF Contains(r.Warnings, formatted)
        THEN r
        ELSE [r EXCEPT !.Warnings = Append(@, formatted)]

Info(r, msg, fields) ==
    [r EXCEPT !.Infos = Append(@, formatSimpleMessage(msg, fields))]

(***************************************************************************)
(* checks.go: ExtractUsefulError.  fullMessage is a token sequence; a line *)
(* is the token sequence between two "\n" tokens.                          *)
(***************************************************************************)
\* unicode.IsSpace, on tokens
IsSpace(tok) == tok \in {" ", "\t", "\n", "\r"}

RECURSIVE TrimLeft(_)
TrimLeft(q) == IF q # <<>> /\ IsSpace(Head(q)) THEN TrimLeft(Tail(q)) ELSE q

RECURSIVE TrimRight(_)
TrimRight(q) ==
    IF q # <<>> /\ IsSpace(q[Len(q)]) THEN TrimRight(SubSeq(q, 1, Len(q) - 1)) ELSE q

\* strings.TrimSpace
TrimSpace(q) == TrimRight(TrimLeft(q))

RECURSIVE SplitAcc(_, _, _, _)
SplitAcc(q, i, cur, acc) ==
    IF i > Len(q) THEN Append(acc, cur)
    ELSE IF q[i] = "\n" THEN SplitAcc(q, i + 1, <<>>, Append(acc, cur))
    ELSE SplitAcc(q, i + 1, Append(cur, q[i]), acc)

\* strings.Split(q, "\n"): always at least one line
Split(q) == SplitAcc(q, 1, <<>>, <<>>)

RECURSIVE Join(_)
\* strings.Join(lines, "\n")
Join(ls) ==
    IF ls = <<>> THEN <<>>
    ELSE IF Len(ls) = 1 THEN ls[1]
    ELSE ls[1] \o <<"\n">> \o Join(Tail(ls))

\* CriticalPatterns.  The patterns anchored by ^\s* match a token at the start
\* of the line; the others match a token anywhere in it.
AnchoredCritical == {"Command failed:", "Error", "FATAL", "CRITICAL", "Caused by:", "TypeError:"}
UnanchoredCritical == {"permission denied", "failed", "exception", "could not connect", "timed out"}

\* A mutant: only the anchored patterns are looked at.
IsCritical_AnchoredOnly(line) ==
    TrimLeft(line) # <<>> /\ Head(TrimLeft(line)) \in AnchoredCritical

\* the loop over CriticalPatterns
IsCritical(line) ==
    \/ TrimLeft(line) # <<>> /\ Head(TrimLeft(line)) \in AnchoredCritical
    \/ \E k \in 1..Len(line) : line[k] \in UnanchoredCritical

\* symbolPattern: ^\s*[~^=]+\s*$
SymbolPattern(line) ==
    LET t == TrimSpace(line)
    IN  t # <<>> /\ \A k \in 1..Len(t) : t[k] \in {"~", "^", "="}

\* the test of checks.go:84
IsNoise(trimmedLine) == trimmedLine = <<>> \/ SymbolPattern(trimmedLine)

\* fmt.Sprintf("[... %d lines omitted ...]", n): one token
OmittedMarker(n) == <<"[... " \o ToString(n) \o " lines omitted ...]">>

\* usefulLines with the marker appended when omittedLines > 0.  usefulIdx runs
\* beside usefulLines: the 0-based index in lines of the line an entry was
\* taken from, -1 for a marker.
WithMarker(useful, omitted) ==
    IF omitted > 0 THEN Append(useful, OmittedMarker(omitted)) ELSE useful
WithMarkerIdx(usefulIdx, omitted) ==
    IF omitted > 0 THEN Append(usefulIdx, -1) ELSE usefulIdx

\* lines with one leading and one trailing empty line removed (checks.go:58-65)
InputLines(fullMessage) ==
    LET l0 == Split(fullMessage)
        l1 == IF l0[1] = <<>> THEN Tail(l0) ELSE l0
    IN  IF l1[Len(l1)] = <<>> THEN SubSeq(l1, 1, Len(l1) - 1) ELSE l1

\* A mutant: the lines are returned as they are after the split.
ShortResult_Untrimmed(fullMessage, lines) == Join(lines)

\* checks.go:69: what a short message is returned as
ShortResult(fullMessage, lines) == TrimSpace(fullMessage)

\* The state of a call that has returned.
WalkDone(fullMessage, maxOutputLines, lines, result) ==
    [pc |-> "done", fullMessage |-> fullMessage, maxOutputLines |-> maxOutputLines,
     lines |-> lines, i |-> 0, usefulLines |-> <<>>, usefulIdx |-> <<>>,
     contextBuffer |-> <<>>, bufIdx |-> <<>>, cutLinesCount |-> 0,
     omittedLines |-> 0, branch |-> "short", result |-> result]

\* checks.go:54-75: the call up to the loop.  A short message is returned
\* at once.  (len(lines) is 0 only for the message "\n", which is returned
\* here whenever maxOutputLines >= 0.)
WalkStart(fullMessage, maxOutputLines) ==
    IF fullMessage = <<>>
    THEN WalkDone(fullMessage, maxOutputLines, <<>>, <<>>)
    ELSE LET lines == InputLines(fullMessage)
         IN  IF Len(lines) <= maxOutputLines
             THEN WalkDone(fullMessage, maxOutputLines, lines,
                           ShortResult(fullMessage, lines))
             ELSE [pc |-> "loop", fullMessage |-> fullMessage,
                   maxOutputLines |-> maxOutputLines, lines |-> lines, i |-> 0,
                   usefulLines |-> <<TrimSpace(lines[1])>>, usefulIdx |-> <<0>>,
                   contextBuffer |-> <<>>, bufIdx |-> <<>>, cutLinesCount |-> 0,
                   omittedLines |-> 0, branch |-> "start", result |-> <<>>]

\* checks.go:107-122: the last lines appended when the budget is reached.
\* L(k) is lines[k] of the code (0-based).
TailLines(w) ==
    LET n == Len(w.lines)
        L(k) == TrimSpace(w.lines[k + 1])
        t4 == IF w.i <= n - 3 /\ ~IsNoise(L(n - 3)) THEN <<n - 3>> ELSE <<>>
        t3 == IF w.i <= n - 2 /\ ~IsNoise(L(n - 2)) THEN <<n - 2>> ELSE <<>>
        t1 == IF ~IsNoise(L(n - 1)) THEN <<n - 1>> ELSE <<>>
    IN  t4 \o t3 \o t1

\* A mutant: the buffer never drops its oldest line.
PushContext_Unbounded(buf, x) == Append(buf, x)

\* A mutant: a full buffer keeps its lines and drops the new one.
PushContext_KeepOldest(buf, x) ==
    IF Len(buf) >= 2 THEN buf ELSE Append(buf, x)

\* context buffer with maxlen 2 (checks.go:149-152)
PushContext(buf, x) ==
    Append(IF Len(buf) >= 2 THEN Tail(buf) ELSE buf, x)

\* A mutant: a noise line is counted as a skipped line.
SkipNoise_Counting(w) ==
    [w EXCEPT !.i = @ + 1, !.cutLinesCount = @ + 1, !.branch = "skip"]

\* checks.go:84-86: the continue on a noise line
SkipNoise(w) == [w EXCEPT !.i = @ + 1, !.branch = "skip"]

\* A mutant: the budget never stops the walk.
BudgetReached_Never(w) == FALSE

\* checks.go:100
BudgetReached(w) == Len(w.usefulLines) >= w.maxOutputLines

\* One pass through the body of the loop of checks.go:80-154 (or the exit
\* from it), on the locals w.  w.i is the loop's i: the index in lines[1:].
WalkStep(w) ==
    LET n == Len(w.lines)
        trimmedLine == TrimSpace(w.lines[w.i + 2])
        finish(useful, usefulIdx, omitted, branch) ==
            [w EXCEPT !.pc = "done", !.usefulLines = useful, !.usefulIdx = usefulIdx,
                      !.omittedLines = omitted, !.branch = branch,
                      !.result = Join(useful)]
    IN  IF w.i >= n - 1
        THEN finish(w.usefulLines, w.usefulIdx, w.omittedLines, "exit")
        ELSE IF IsNoise(trimmedLine)
        THEN SkipNoise(w)
        ELSE IF w.i = n - 1
        THEN LET omitted == w.cutLinesCount - Len(w.contextBuffer)
             IN  finish(WithMarker(w.usefulLines, omitted) \o w.contextBuffer
                            \o <<trimmedLine>>,
                        WithMarkerIdx(w.usefulIdx, omitted) \o w.bufIdx \o <<w.i + 1>>,
                        omitted, "end")
        ELSE IF BudgetReached(w)
        THEN LET omitted == w.cutLinesCount + n - w.i - 3
                 tail == TailLines(w)
             IN  finish(WithMarker(w.usefulLines, omitted)
                            \o [k \in 1..Len(tail) |-> TrimSpace(w.lines[tail[k] + 1])],
                        WithMarkerIdx(w.usefulIdx, omitted) \o tail,
                        omitted, "budget")
        ELSE IF IsCritical(trimmedLine)
        THEN LET omitted == w.cutLinesCount - Len(w.contextBuffer)
             IN  [w EXCEPT !.i = @ + 1,
                           !.omittedLines = omitted,
                           !.usefulLines = WithMarker(@, omitted) \o w.contextBuffer
                                               \o <<trimmedLine>>,
                           !.usefulIdx = WithMarkerIdx(@, omitted) \o w.bufIdx
                                             \o <<w.i + 1>>,
                           !.cutLinesCount = 0,
                           !.contextBuffer = <<>>,
                           !.bufIdx = <<>>,
                           !.branch = "critical"]
        ELSE [w EXCEPT !.i = @ + 1,
                       !.cutLinesCount = @ + 1,
                       !.contextBuffer = PushContext(@, trimmedLine),
                       !.bufIdx = PushContext(@, w.i + 1),
                       !.branch = "context"]

RECURSIVE WalkRun(_)
WalkRun(w) == IF w.pc = "done" THEN w ELSE WalkRun(WalkStep(w))

ExtractUsefulError(fullMessage, maxOutputLines) ==
    WalkRun(WalkStart(fullMessage, maxOutputLines)).result

DefaultMaxOutputLines == 8
\* A mutant: the message is handed on as it is.
ExtractUsefulErrorDefault_Uncompacted(fullMessage) == fullMessage

ExtractUsefulErrorDefault(fullMessage) ==
    ExtractUsefulError(fullMessage, DefaultMaxOutputLines)

(***************************************************************************)
(* checks.go: the selector registry and the handler catalog.  A selector   *)
(* and a message are token sequences.  A handler applied to a record and a *)
(* report gives [panic, rep]: whether the call panicked, and the report    *)
(* after it.                                                               *)
(***************************************************************************)
\* A mutant: the selector is looked for at the start of the message only.
StringsContains_PrefixOnly(msg, selector) ==
    Len(selector) <= Len(msg) /\ SubSeq(msg, 1, Len(selector)) = selector

\* strings.Contains(msg, selector)
StringsContains(msg, selector) ==
    \E i \in 0..(Len(msg) - Len(selector)) :
        SubSeq(msg, i + 1, i + Len(selector)) = selector

\* A mutant: a selector that is registered already keeps its handler.
RegisterSelector_KeepFirst(sel, selector, checkFunc) ==
    IF selector \in DOMAIN sel THEN sel
    ELSE [k \in DOMAIN sel \cup {selector} |->
             IF k = selector THEN checkFunc ELSE sel[k]]

\* RegisterSelector: Selectors[selector] = checkFunc
RegisterSelector(sel, selector, checkFunc) ==
    [k \in DOMAIN sel \cup {selector} |-> IF k = selector THEN checkFunc ELSE sel[k]]

\* the calls of init(), in order
InitRegistrations ==
    << <<"Reached PR limit - skipping PR creation", "prLimitReached">>,
       <<"Base branch does not exist - skipping", "baseBranchDoesNotExist">>,
       <<"Config migration necessary", "configMigrationNecessary">>,
       <<"Found renovate config errors", "renovateConfigErrors">>,
       <<"branches info extended", "upgradesAwaitingSchedule">>,
       <<"PR rebase requested=true", "checkForRebaseRequests">>,
       <<"rawExec err", "rawExecError">>,
       <<"Ignoring upgrade collision", "upgradeCollision">>,
       <<"Platform-native commit: unknown error", "platformCommitError">>,
       <<"File contents are invalid JSONC but parse using JSON5", "invalidJSONConfig">>,
       <<"Repository has changed during renovation - aborting",
         "repositoryChangedDuringRenovation">>,
       <<"Passing repository-changed error up", "branchErrorDuringRenovation">> >>

\* A mutant: the rebase selector without its value.
SelectorTokens_RebaseAny(text) ==
    IF text = "PR rebase requested=true" THEN <<"PR rebase requested=">> ELSE <<text>>

\* The tokens of a selector: "PR rebase requested=true" ends in a token of
\* its own, so that a message can end in "false" instead.
SelectorTokens(text) ==
    IF text = "PR rebase requested=true"
    THEN <<"PR rebase requested=", "true">>
    ELSE <<text>>

RECURSIVE RegisterAll(_, _)
RegisterAll(sel, regs) ==
    IF regs = <<>> THEN sel
    ELSE RegisterAll(RegisterSelector(sel, SelectorTokens(Head(regs)[1]), Head(regs)[2]),
                     Tail(regs))

\* Selectors after init()
SelectorsAfterInit == RegisterAll(<<>>, InitRegistrations)

\* line.Extras[k]: nil when Extras is nil or has no such key
Extra(line, k) == IF line.Extras.t = "map" THEN Get(line.Extras.m, k) ELSE Nil

Returned(r) == [panic |-> FALSE, rep |-> r]
Panicked(r) == [panic |-> TRUE, rep |-> r]

RECURSIVE Tabs(_)
Tabs(d) == IF d = 0 THEN "" ELSE "\t" \o Tabs(d - 1)

RECURSIVE JsonV(_, _)
RECURSIVE JsonMapFrom(_, _, _, _)
RECURSIVE JsonListFrom(_, _, _)
\* json.MarshalIndent(v, "", "\t"), at depth d
JsonV(v, d) ==
    CASE v.t = "nil" -> "null"
      [] v.t = "string" -> "\"" \o Flat(v.q) \o "\""
      [] v.t = "number" -> ToString(v.n)
      [] v.t = "map" ->
            IF \A i \in 1..Len(KeyOrder) : KeyOrder[i] \notin DOMAIN v.m THEN "{}"
            ELSE "{" \o JsonMapFrom(v.m, 1, TRUE, d + 1) \o "\n" \o Tabs(d) \o "}"
      [] v.t = "list" ->
            IF v.q = <<>> THEN "[]"
            ELSE "[" \o JsonListFrom(v.q, 1, d + 1) \o "\n" \o Tabs(d) \o "]"

JsonMapFrom(m, i, first, d) ==
    IF i > Len(KeyOrder) THEN ""
    ELSE IF KeyOrder[i] \in DOMAIN m
         THEN (IF first THEN "" ELSE ",") \o "\n" \o Tabs(d) \o "\"" \o KeyOrder[i]
                  \o "\": " \o JsonV(m[KeyOrder[i]], d) \o JsonMapFrom(m, i + 1, FALSE, d)
         ELSE JsonMapFrom(m, i + 1, first, d)

JsonListFrom(q, i, d) ==
    IF i > Len(q) THEN ""
    ELSE (IF i > 1 THEN "," ELSE "") \o "\n" \o Tabs(d) \o JsonV(q[i], d)
             \o JsonListFrom(q, i + 1, d)

prLimitReached(line, r) ==
    Returned(Warning(r, "PR limit reached - skipping PR creation", <<>>))

\* strings.HasPrefix / strings.HasSuffix with a one-token affix
HasPrefix(q, tok) == q # <<>> /\ q[1] = tok
\* A mutant: the end of the string is not looked at.
HasSuffix_AsPrefix(q, tok) == HasPrefix(q, tok)
HasSuffix(q, tok) == q # <<>> /\ q[Len(q)] = tok

\* the hint of checks.go:177 and 180 (its back quotes left out)
GenericBaseBranchHint == "Check baseBranchPatterns in renovate.json"

baseBranchDoesNotExist(line, r) ==
    IF line.Extras.t # "nil"
    THEN LET baseBranch == Extra(line, "baseBranch")
         IN  IF baseBranch.t = "string"
                  /\ (~HasPrefix(baseBranch.q, "/") \/ ~HasSuffix(baseBranch.q, "/"))
             THEN Returned(Error(r, "Base branch does not exist",
                      <<S("hint"),
                        S("baseBranch must be a JS pattern like: /" \o Flat(baseBranch.q) \o "/")>>))
             ELSE Returned(Error(r, "Base branch does not exist",
                      <<S("Hint"), S(GenericBaseBranchHint)>>))
    ELSE Returned(Error(r, "Base branch does not exist",
             <<S("Hint"), S(GenericBaseBranchHint)>>))

\* The type assertion of checks.go:186 has no ok result: it panics unless
\* newConfig is a mapping.
configMigrationNecessary(line, r) ==
    LET newConfig == Extra(line, "newConfig")
    IN  IF newConfig.t # "map" THEN Panicked(r)
        ELSE Returned(Warning(r, "Config migration necessary",
                 <<S("New config"), S(JsonV(newConfig, 0))>>))

RECURSIVE ConfigErrorsFrom(_, _)
\* the loop of checks.go:197-201, joined
ConfigErrorsFrom(q, i) ==
    IF i > Len(q) THEN ""
    ELSE (IF q[i].t = "map"
          THEN "\n" \o FmtS(Get(q[i].m, "topic")) \o ": " \o FmtS(Get(q[i].m, "message"))
          ELSE "") \o ConfigErrorsFrom(q, i + 1)

\* The type assertion of checks.go:197 has no ok result: it panics unless
\* errors is a sequence.
renovateConfigErrors(line, r) ==
    LET errors == Extra(line, "errors")
    IN  IF errors.t # "list" THEN Panicked(r)
        ELSE Returned(Error(r, "Found renovate config errors",
                 <<S("Errors"), S(ConfigErrorsFrom(errors.q, 1))>>))

RECURSIVE AwaitingScheduleFrom(_, _, _)
\* the loop of checks.go:212-224
AwaitingScheduleFrom(q, i, r) ==
    IF i > Len(q) THEN r
    ELSE LET branch == q[i]
         IN  IF branch.t = "map"
                  /\ Get(branch.m, "result") = S("update-not-scheduled")
             THEN AwaitingScheduleFrom(q, i + 1,
                      Info(r, "Upgrade awaiting schedule",
                           <<S("Branch"), Get(branch.m, "branchName"),
                             S("PR No."), Get(branch.m, "prNo"),
                             S("PR Title"), Get(branch.m, "prTitle")>>))
             ELSE AwaitingScheduleFrom(q, i + 1, r)

upgradesAwaitingSchedule(line, r) ==
    LET branchesInfo == Extra(line, "branchesInformation")
    IN  IF branchesInfo.t # "list" THEN Returned(r)
        ELSE Returned(AwaitingScheduleFrom(branchesInfo.q, 1, r))

checkForRebaseRequests(line, r) ==
    Returned(Info(r, "PR rebase requested", <<S("Branch"), Extra(line, "branch")>>))

\* the path matched by ([\w\/\.\-]+) is one token
PathTokens == {"rpms.in.yaml", "a/b.lock"}
FileNotFoundPrefix == "FileNotFoundError: [Errno 2] No such file or directory: '"
\* positions of the matches of fileNotFoundRe in message
FileNotFoundAt(message) ==
    { i \in 1..(Len(message) - 2) :
        /\ message[i] = FileNotFoundPrefix
        /\ message[i + 1] \in PathTokens
        /\ message[i + 2] = "'" }

rawExecError(line, r) ==
    LET errData == Extra(line, "err")
    IN  IF errData.t # "map" THEN Returned(r)
        ELSE LET options == Get(errData.m, "options")
                 message == IF Get(errData.m, "message").t = "string"
                            THEN Get(errData.m, "message").q ELSE <<>>
                 at == FileNotFoundAt(message)
                 first == CHOOSE i \in at : \A j \in at : i <= j
                 fields ==
                     <<S("Branch"), Extra(line, "branch"),
                       S("Duration"), Extra(line, "durationMs")>>
                     \o (IF options.t = "map"
                         THEN <<S("Timeout"), Get(options.m, "timeout")>> ELSE <<>>)
                     \o (IF StringsContains(message, <<"Failed to download metadata for repo">>)
                         THEN <<S("Hint"),
                                S("Possible activation key issue (Failed to download metadata for repo ... Cannot download repomd.xml)")>>
                         ELSE <<>>)
                     \o (IF at # {}
                         THEN <<S("Hint"),
                                S("File not found: " \o message[first + 1]
                                    \o ", check rpms.in.yaml configuration")>>
                         ELSE <<>>)
                     \o <<S("Message"), Str(ExtractUsefulErrorDefault(message))>>
                     \o <<S("\nFull message"), Str(message)>>
             IN  Returned(Error(r, "Error executing command", fields))

upgradeCollision(line, r) ==
    Returned(Warning(r, "Upgrade collision can prevent PR from being opened",
        <<S("Dependency Name"), Extra(line, "depName"),
          S("Current Value"), Extra(line, "currentValue"),
          S("Previous New Value"), Extra(line, "previousNewValue"),
          S("This New Value"), Extra(line, "thisNewValue")>>))

platformCommitError(line, r) ==
    LET errData == Extra(line, "err")
    IN  IF errData.t # "map" THEN Returned(r)
        ELSE LET errMessage == IF Get(errData.m, "message").t = "string"
                               THEN Get(errData.m, "message") ELSE Str(<<>>)
                 task == Get(errData.m, "task")
             IN  Returned(Error(r, Flat(line.Msg),
                     <<S("Branch"), Extra(line, "branch"),
                       S("Message"), errMessage,
                       S("Task"), S(FmtV(task))>>))

invalidJSONConfig(line, r) ==
    Returned(Error(r, "Invalid JSONC, but parsed using JSON5.",
        <<S("file"), Extra(line, "context"),
          S("hint"), S("Either fix the syntax for JSON or change config to JSON5.")>>))

repositoryChangedDuringRenovation(line, r) ==
    Returned(Error(r, "Repository has changed during renovation", <<>>))

branchErrorDuringRenovation(line, r) ==
    Returned(Error(r, "Branch error related to 'Repository has changed during renovation'",
        <<S("branch"), Extra(line, "branch"),
          S("hint"), S("Try to delete this branch manually")>>))

\* checkFunc(&logEntry, report)
CheckFunc(name, line, r) ==
    CASE name = "prLimitReached" -> prLimitReached(line, r)
      [] name = "baseBranchDoesNotExist" -> baseBranchDoesNotExist(line, r)
      [] name = "configMigrationNecessary" -> configMigrationNecessary(line, r)
      [] name = "renovateConfigErrors" -> renovateConfigErrors(line, r)
      [] name = "upgradesAwaitingSchedule" -> upgradesAwaitingSchedule(line, r)
      [] name = "checkForRebaseRequests" -> checkForRebaseRequests(line, r)
      [] name = "rawExecError" -> rawExecError(line, r)
      [] name = "upgradeCollision" -> upgradeCollision(line, r)
      [] name = "platformCommitError" -> platformCommitError(line, r)
      [] name = "invalidJSONConfig" -> invalidJSONConfig(line, r)
      [] name = "repositoryChangedDuringRenovation" ->
            repositoryChangedDuringRenovation(line, r)
      [] name = "branchErrorDuringRenovation" -> branchErrorDuringRenovation(line, r)

(***************************************************************************)
(* log_reader.go: checkLogs and buildErrorMessage.                         *)
(***************************************************************************)
\* buildErrorMessage(logEntry)
buildErrorMessage(logEntry) ==
    LET errMap == Extra(logEntry, "err")
        errorMessage == Extra(logEntry, "errorMessage")
    IN  IF errMap.t = "map" /\ Get(errMap.m, "message").t = "string"
        THEN logEntry.Message \o ": " \o Flat(Get(errMap.m, "message").q) \o "\n"
        ELSE IF errorMessage.t = "string"
        THEN logEntry.Message \o ": " \o Flat(errorMessage.q) \o "\n"
        ELSE logEntry.Message \o "\n"

\* A mutant: the count of a message is set, not incremented.
Increment_Overwrite(m, key) ==
    [k \in DOMAIN m \cup {key} |-> IF k = key THEN 1 ELSE m[k]]

\* errorsMap[formattedErr]++ (log_reader.go:254, 257)
Increment(m, key) ==
    [k \in DOMAIN m \cup {key} |->
        IF k = key THEN (IF key \in DOMAIN m THEN m[key] ELSE 0) + 1 ELSE m[k]]

\* log_reader.go:273-277: the item of one message of the map
UniqueMessage(msg, count) ==
    IF count > 1 THEN ToString(count) \o "x " \o msg ELSE msg

\* the orders in which a range over the map m can reach its keys
RangeOrders(m) ==
    { q \in [1..Cardinality(DOMAIN m) -> DOMAIN m] :
        \A a, b \in 1..Cardinality(DOMAIN m) : q[a] = q[b] => a = b }

RECURSIVE SumCounts(_, _, _)
SumCounts(m, order, i) ==
    IF i > Len(order) THEN 0 ELSE m[order[i]] + SumCounts(m, order, i + 1)

RECURSIVE ConcatAll(_)
\* strings.Join(items, "")
ConcatAll(items) == IF items = <<>> THEN "" ELSE Head(items) \o ConcatAll(Tail(items))

\* log_reader.go:262-281 (and 284-303): the summary of one map, its keys
\* reached in the given order: [total, items, text]
LevelSummary(m, order, label) ==
    LET items == [i \in 1..Len(order) |-> UniqueMessage(order[i], m[order[i]])]
        total == SumCounts(m, order, 1)
    IN  [total |-> total, items |-> items,
         text |-> IF Cardinality(DOMAIN m) = 0 THEN ""
                  ELSE ToString(total) \o " " \o label \o ":\n" \o ConcatAll(items)]

\* log_reader.go:305-313
CheckLogsResult(container, errString, fatalString, simpleReason) ==
    "Container " \o container \o " exited with \n"
        \o (IF errString = "" /\ fatalString = ""
            THEN "reason: " \o simpleReason ELSE errString)
        \o " " \o fatalString

(***************************************************************************)
(* log_reader.go: processLogStream and parseLogLine.  A raw line is its    *)
(* text, what encoding/json decodes the text to (NotJSON when it is not    *)
(* JSON at all) and whether it is longer than the scanner's token limit.   *)
(***************************************************************************)
NotJSON == [t |-> "invalid"]
RawLine(text, decoded, tooLong) == [text |-> text, decoded |-> decoded, tooLong |-> tooLong]

\* log_reader.go:45-52
renovateLogLevels ==
    (10 :> "TRACE") @@ (20 :> "DEBUG") @@ (30 :> "INFO") @@ (40 :> "WARN")
        @@ (50 :> "ERROR") @@ (60 :> "FATAL")

\* json.Unmarshal([]byte(line), &rawData) into a map[string]any: fails on
\* text that is not JSON and on JSON that is no object; null leaves rawData nil
UnmarshalFails(line) == line.decoded.t \notin {"map", "nil"}
RawData(line) == IF line.decoded.t = "map" THEN line.decoded.m ELSE <<>>

\* time.Parse(time.RFC3339, tsStr) succeeds
ParsesAsRFC3339(tsStr) == tsStr = <<"2025-01-02T03:04:05Z">>

\* log_reader.go:195-208: the "time" key
TimestampOf(rawData) ==
    LET v == Get(rawData, "time")
    IN  IF v.t = "string" /\ ParsesAsRFC3339(v.q) THEN Flat(v.q) ELSE "zero"

\* log_reader.go:209-223: the "level" key
LevelOf(rawData) ==
    LET v == Get(rawData, "level")
    IN  IF "level" \notin DOMAIN rawData \/ v.t # "number" THEN ""
        ELSE IF v.n \in DOMAIN renovateLogLevels THEN renovateLogLevels[v.n]
        ELSE "LEVEL_" \o ToString(v.n)

\* log_reader.go:224-231: the "msg" key
MessageOf(rawData) ==
    LET v == Get(rawData, "msg")
    IN  IF v.t = "string" THEN Flat(v.q) ELSE ""

\* the keys of rawData that go to Extras (log_reader.go:198, 204, 212, 227,
\* 233, 235)
ExtrasKeys(rawData) ==
    { k \in DOMAIN rawData :
        CASE k = "time" -> ~(rawData[k].t = "string" /\ ParsesAsRFC3339(rawData[k].q))
          [] k = "level" -> rawData[k].t # "number"
          [] k = "msg" -> rawData[k].t # "string"
          [] OTHER -> TRUE }

\* parseLogLine(line, container, pod): [err, entry]
parseLogLine(line, container, pod) ==
    IF UnmarshalFails(line)
    THEN [err |-> TRUE,
          entry |-> [Timestamp |-> "zero", Level |-> "", Message |-> "", Container |-> "",
                     Pod |-> "", Extras |-> Nil]]
    ELSE LET rawData == RawData(line)
         IN  [err |-> FALSE,
              entry |-> [Timestamp |-> TimestampOf(rawData), Level |-> LevelOf(rawData),
                         Message |-> MessageOf(rawData), Container |-> container,
                         Pod |-> pod,
                         Extras |-> Map([k \in ExtrasKeys(rawData) |-> rawData[k]])]]

\* log_reader.go:155-161
UnknownEntry(line, container, pod) ==
    [Timestamp |-> "now", Level |-> "UNKNOWN", Message |-> line.text, Container |-> container,
     Pod |-> pod, Extras |-> Nil]

\* A mutant: a line the parser rejects is dropped.
RetainLine_DropRejected(structuredLogs, line, container, pod) ==
    IF parseLogLine(line, container, pod).err THEN structuredLogs
    ELSE Append(structuredLogs, parseLogLine(line, container, pod).entry)

\* log_reader.go:152-165: the body of the scan loop
RetainLine(structuredLogs, line, container, pod) ==
    LET parsed == parseLogLine(line, container, pod)
    IN  Append(structuredLogs,
               IF parsed.err THEN UnknownEntry(line, container, pod) ELSE parsed.entry)

\* scanner.Scan() delivers line k of the stream: there is one, and neither it
\* nor a line before it is longer than bufio.MaxScanTokenSize (Scan returns
\* false on a token too long and on every call after that)
ScanDelivers(stream, k) ==
    /\ k <= Len(stream)
    /\ \A j \in 1..k : ~stream[j].tooLong

(***************************************************************************)
(* pipelinerun_controller.go: handlePipelinerunCompletion.  h holds the    *)
(* inputs of one call (the Succeeded condition, whether the KITE client is *)
(* set, whether the Component can be fetched, what GetFailedPodDetails     *)
(* returns) and its progress; h.calls are the requests handed to           *)
(* KiteClient.SendWebhookRequest, in order.                                *)
(***************************************************************************)
\* condition.IsTrue()
IsTrue(condition) == condition.status = "True"

\* sendCustomWebhook: nothing is sent for an empty list
CustomSkipped(entries) == Len(entries) < 1

\* the three sendCustomWebhook calls, in order: <<issueType, logs>>
CustomWebhooks(podDetails) ==
    << <<"error", podDetails.Error>>, <<"warning", podDetails.Warning>>,
       <<"info", podDetails.Info>> >>

\* A mutant: without pod details the handler gives up.
OnPodDetailsError_GiveUp(h) == [h EXCEPT !.pc = "returned", !.ret = "error"]

\* pipelinerun_controller.go:90-92: the error is logged and the condition's
\* reason becomes the failure reason
OnPodDetailsError(h) ==
    [h EXCEPT !.pc = "status", !.failReason = h.condition.reason]

\* pipelinerun_controller.go:112-116: the status webhook and its payload
StatusWebhook(h) ==
    IF IsTrue(h.condition)
    THEN [name |-> "pipeline-success", type |-> "", payload |-> ""]
    ELSE [name |-> "pipeline-failure", type |-> "", payload |-> h.failReason]

(***************************************************************************)
(* pipelinerun_controller.go: the event filter of SetupWithManager.  An    *)
(* event is its kind, the namespace of its (new) object, whether the old   *)
(* and the new PipelineRun are done and whether the new one has a          *)
(* completion time.                                                        *)
(***************************************************************************)
\* the namespace constant of internal/pkg/constant
MintMakerNamespaceName == "mintmaker"

\* A mutant: the old object is not looked at.
IsCompletion_NewDone(e) == e.newDone

\* pipelinerun_controller.go:198: !oldPipelineRun.IsDone() && newPipelineRun.IsDone()
IsCompletion(e) == ~e.oldDone /\ e.newDone

\* what the filter does with event e: [passed, handled], handled being the
\* number of calls of handlePipelinerunCompletion
FilterEvent(e) ==
    IF e.kind \in {"Create", "Delete", "Generic"}
    THEN [passed |-> FALSE, handled |-> 0]
    ELSE IF e.namespace # MintMakerNamespaceName
    THEN [passed |-> FALSE, handled |-> 0]
    ELSE IF IsCompletion(e)
    THEN [passed |-> TRUE, handled |-> IF e.completionTime THEN 1 ELSE 0]
    ELSE [passed |-> FALSE, handled |-> 0]

(***************************************************************************)
(* Idle values of the parts a specification does not exercise.             *)
(***************************************************************************)
\* nErrors and nInfos count the Error and Info calls made
NoLast == [op |-> "none", formatted |-> "", n |-> 0, nErrors |-> 0, nInfos |-> 0]
IdleClassify ==
    /\ Selectors = SelectorsAfterInit
    /\ logs = <<>>
    /\ idx = 0
    /\ pending = {}
    /\ pcC = "idle"
    /\ invoked = <<>>
IdleWalk == walk = [pc |-> "idle"]
IdleCheckLogs == cl = [pc |-> "idle"]
IdleStream == ps = [pc |-> "idle"]
IdleCompletion == hp = [pc |-> "idle"]
IdleFilter == ef = [pc |-> "idle"]
IdleController == IdleStream /\ IdleCompletion /\ IdleFilter

(***************************************************************************)
(* SpecReport: any sequence of Error, Warning and Info calls on one        *)
(* SimpleReport, starting from the empty report.                           *)
(***************************************************************************)
MaxCalls == 3

\* The messages and field lists the calls are made with.  "a | k: v" with no
\* field and "a" with the field (k, v) format to the same string.
CallMsgs == {"a", "a | k: v"}
CallFields ==
    { <<>>,
      <<S("k"), S("v")>>,
      <<S("Message"), S("v")>>,
      <<S("k"), Nil, S("odd")>> }

InitReport ==
    /\ report = EmptyReport
    /\ last = NoLast
    /\ IdleClassify
    /\ IdleWalk
    /\ IdleCheckLogs
    /\ IdleController

CallError ==
    \E msg \in CallMsgs, fields \in CallFields :
        /\ last.n < MaxCalls
        /\ report' = Error(report, msg, fields)
        /\ last' = [op |-> "Error", formatted |-> formatSimpleMessage(msg, fields),
                    n |-> last.n + 1, nErrors |-> last.nErrors + 1, nInfos |-> last.nInfos]
        /\ UNCHANGED <<Selectors, logs, idx, pending, pcC, invoked, walk, cl, ps, hp, ef>>

CallWarning ==
    \E msg \in CallMsgs, fields \in CallFields :
        /\ last.n < MaxCalls
        /\ report' = Warning(report, msg, fields)
        /\ last' = [op |-> "Warning", formatted |-> formatSimpleMessage(msg, fields),
                    n |-> last.n + 1, nErrors |-> last.nErrors, nInfos |-> last.nInfos]
        /\ UNCHANGED <<Selectors, logs, idx, pending, pcC, invoked, walk, cl, ps, hp, ef>>

CallInfo ==
    \E msg \in CallMsgs, fields \in CallFields :
        /\ last.n < MaxCalls
        /\ report' = Info(report, msg, fields)
        /\ last' = [op |-> "Info", formatted |-> formatSimpleMessage(msg, fields),
                    n |-> last.n + 1, nErrors |-> last.nErrors, nInfos |-> last.nInfos + 1]
        /\ UNCHANGED <<Selectors, logs, idx, pending, pcC, invoked, walk, cl, ps, hp, ef>>

NextReport == CallError \/ CallWarning \/ CallInfo

SpecReport == InitReport /\ [][NextReport]_vars

C15_AppendOnlyFrame ==
    /\ [][ last'.n = last.n + 1
            => /\ last'.op = "Error"
                    => /\ report'.Errors = Append(report.Errors, last'.formatted)
                       /\ report'.Warnings = report.Warnings
                       /\ report'.Infos = report.Infos
               /\ last'.op = "Info"
                    => /\ report'.Infos = Append(report.Infos, last'.formatted)
                       /\ report'.Warnings = report.Warnings
                       /\ report'.Errors = report.Errors
               /\ last'.op = "Warning"
                    => /\ \/ report'.Warnings = report.Warnings
                          \/ report'.Warnings = Append(report.Warnings, last'.formatted)
                       /\ report'.Errors = report.Errors
                       /\ report'.Infos = report.Infos ]_vars
    /\ [](Len(report.Errors) = last.nErrors /\ Len(report.Infos) = last.nInfos)

\* Error was called twice with texts that format alike and Errors holds
\* both; the Info call after them left Errors alone
C15_Witness ==
    /\ last.op = "Info"
    /\ last.nErrors = 2
    /\ report.Errors = <<"a | k: v", "a | k: v">>
    /\ report.Infos = <<"a">>
    /\ report.Warnings = <<>>

(***************************************************************************)
(* SpecExtract: one call of ExtractUsefulError on any of the texts below,  *)
(* taken one loop iteration at a time.                                     *)
(***************************************************************************)
MaxRichLines == 5
MaxPlainLines == 9
MaxBudget == 3

\* Lines of every kind the code tells apart: empty, blank, symbols only,
\* an ordinary line and a critical one (both with white space around them).
RichLines == { <<>>, <<" ">>, <<"~", "=">>, <<" ", "x">>, <<"failed", " ">> }
\* Long texts are made of an ordinary line (a pattern word that is not at its
\* start) and a critical one.
PlainLines == { <<"x", " ", "Error">>, <<"Error", " ", "x">> }

LinesOver(alphabet, max) == UNION { [1..k -> alphabet] : k \in 0..max }
TextInputs ==
    { Join(ls) : ls \in LinesOver(RichLines, MaxRichLines)
                        \cup LinesOver(PlainLines, MaxPlainLines) }

InitExtract ==
    /\ \E text \in TextInputs, n \in 0..MaxBudget :
          walk = [pc |-> "call", fullMessage |-> text, maxOutputLines |-> n]
    /\ report = EmptyReport
    /\ last = NoLast
    /\ IdleClassify
    /\ IdleCheckLogs
    /\ IdleController

Others == <<Selectors, report, last, logs, idx, pending, pcC, invoked, cl, ps, hp, ef>>

\* the call: checks.go:54-75
ExtractCall ==
    /\ walk.pc = "call"
    /\ walk' = WalkStart(walk.fullMessage, walk.maxOutputLines)
    /\ UNCHANGED Others

\* One iteration of the loop, by the branch it takes.  (The branch of
\* checks.go:88-97 is taken by no input: i ranges over lines[1:] and never
\* equals len(lines)-1.)
ExtractIter(branch) ==
    /\ walk.pc = "loop"
    /\ walk' = WalkStep(walk)
    /\ walk'.branch = branch

ExtractSkip ==
    /\ ExtractIter("skip")
    /\ UNCHANGED Others

ExtractBudget ==
    /\ ExtractIter("budget")
    /\ UNCHANGED Others

ExtractCritical ==
    /\ ExtractIter("critical")
    /\ UNCHANGED Others

ExtractContext ==
    /\ ExtractIter("context")
    /\ UNCHANGED Others

ExtractExit ==
    /\ ExtractIter("exit")
    /\ UNCHANGED Others

NextExtract ==
    \/ ExtractCall
    \/ ExtractSkip
    \/ ExtractBudget
    \/ ExtractCritical
    \/ ExtractContext
    \/ ExtractExit

SpecExtract == InitExtract /\ [][NextExtract]_vars

\* the branch of checks.go:88-97 is never taken
EndBranchDead == walk.pc \in {"loop", "done"} => walk.branch # "end"

(***************************************************************************)
(* Claims about ExtractUsefulError (SpecExtract).                          *)
(***************************************************************************)
\* 1-based positions in lines of the lines that are not noise
NonNoise(lines) == { k \in 1..Len(lines) : ~IsNoise(TrimSpace(lines[k])) }
\* ... and of the last three of them
FinalThree(lines) ==
    { k \in NonNoise(lines) : Cardinality({ j \in NonNoise(lines) : j > k }) < 3 }

\* len(lines) after checks.go:58-65 (the empty message is returned before)
LineCount(fullMessage) ==
    IF fullMessage = <<>> THEN 0 ELSE Len(InputLines(fullMessage))

\* C4: for any non-empty input the output starts with line 0 (trimmed) and
\* holds at least one of the final three non-blank lines of the input, also
\* when the walk reaches the end of the input below the budget.
C4_TailAlwaysKept ==
    (walk.pc = "done" /\ walk.fullMessage # <<>>) =>
        LET lines == InputLines(walk.fullMessage)
            out == Split(walk.result)
        IN  /\ (lines # <<>> /\ TrimSpace(lines[1]) # <<>>)
                  => TrimSpace(out[1]) = TrimSpace(lines[1])
            /\ FinalThree(lines) # {} =>
                  IF walk.branch = "short"
                  THEN \E k \in FinalThree(lines), j \in 1..Len(out) :
                          TrimSpace(out[j]) = TrimSpace(lines[k])
                  ELSE \E j \in 1..Len(walk.usefulIdx) :
                          walk.usefulIdx[j] + 1 \in FinalThree(lines)

\* C5: for every input and every maxOutputLines n >= 1 the output has at most
\* n + 7 lines.
C5_OutputBounded ==
    (walk.pc = "done" /\ walk.maxOutputLines >= 1) =>
        Len(Split(walk.result)) <= walk.maxOutputLines + 7

\* a compacted output of exactly n + 7 lines, longer than its input
C5_Witness ==
    /\ walk.pc = "done"
    /\ walk.maxOutputLines >= 1
    /\ walk.branch = "budget"
    /\ Len(Split(walk.result)) = walk.maxOutputLines + 7
    /\ Len(Split(walk.result)) > Len(walk.lines)

\* C6: when the line count (after dropping one leading and one trailing empty
\* line) is <= n, the result is the trimmed input, and compacting the result
\* again with the same n gives the same result.
C6_ShortIsTrimmedAndIdempotent ==
    (walk.pc = "done" /\ LineCount(walk.fullMessage) <= walk.maxOutputLines) =>
        /\ walk.result = TrimSpace(walk.fullMessage)
        /\ ExtractUsefulError(walk.result, walk.maxOutputLines) = walk.result

\* a short text of several lines that trimming changed
C6_Witness ==
    /\ walk.pc = "done"
    /\ LineCount(walk.fullMessage) <= walk.maxOutputLines
    /\ LineCount(walk.fullMessage) >= 3
    /\ walk.result # walk.fullMessage
    /\ Len(Split(walk.result)) >= 2

\* The line the walk is at is a critical line reached below the budget.
AtCriticalLine(w) ==
    /\ w.pc = "loop"
    /\ w.i < Len(w.lines) - 1
    /\ ~IsNoise(TrimSpace(w.lines[w.i + 2]))
    /\ Len(w.usefulLines) < w.maxOutputLines
    /\ IsCritical(TrimSpace(w.lines[w.i + 2]))

\* 0-based index of the last line retained before line cur: a critical line
\* that is not noise, or line 0
LastRetained(lines, cur) ==
    LET c == { j \in 1..(cur - 1) :
                 LET t == TrimSpace(lines[j + 1]) IN ~IsNoise(t) /\ IsCritical(t) }
    IN  IF c = {} THEN 0 ELSE CHOOSE j \in c : \A m \in c : m <= j

\* 0-based indices of the lines between the last retained line and line cur
\* that are not noise
SinceRetained(lines, cur) ==
    { k \in (LastRetained(lines, cur) + 1)..(cur - 1) : ~IsNoise(TrimSpace(lines[k + 1])) }

\* C7: at a critical line reached below the budget, a marker is emitted iff the
\* skip counter exceeds the number of buffered lines, with count (skip counter -
\* buffered lines); then the buffered lines (the at most 2 most recent
\* non-critical, non-blank lines since the last retained line) in input order,
\* then the critical line; afterwards skip counter 0 and buffer empty.
C7_CriticalFlush ==
    [][ (AtCriticalLine(walk) /\ walk' # walk) =>
          LET buf == walk.contextBuffer
              count == walk.cutLinesCount - Len(buf)
              cur == walk.i + 1
              since == SinceRetained(walk.lines, cur)
              recent == { k \in since : Cardinality({ m \in since : m > k }) < 2 }
          IN  /\ Len(buf) <= 2
              /\ { walk.bufIdx[k] : k \in 1..Len(buf) } = recent
              /\ \A k \in 1..Len(buf) :
                    /\ buf[k] = TrimSpace(walk.lines[walk.bufIdx[k] + 1])
                    /\ k > 1 => walk.bufIdx[k - 1] < walk.bufIdx[k]
              /\ walk'.usefulLines =
                    walk.usefulLines
                      \o (IF count > 0 THEN <<OmittedMarker(count)>> ELSE <<>>)
                      \o buf \o <<TrimSpace(walk.lines[cur + 1])>>
              /\ walk'.cutLinesCount = 0
              /\ walk'.contextBuffer = <<>> ]_vars

\* a critical line was flushed with a marker and two lines of context
C7_Witness ==
    /\ walk.pc = "loop"
    /\ walk.branch = "critical"
    /\ Len(walk.usefulLines) = 5
    /\ walk.usefulIdx = <<0, -1, 2, 3, 4>>
    /\ walk.cutLinesCount = 0
    /\ walk.contextBuffer = <<>>

\* The line the walk is at is a noise line after line 0.
AtNoiseLine(w) ==
    /\ w.pc = "loop"
    /\ w.i < Len(w.lines) - 1
    /\ IsNoise(TrimSpace(w.lines[w.i + 2]))

\* no entry of the output was taken from a noise line after line 0
NoNoiseEmitted(w) ==
    \A k \in 1..Len(w.usefulIdx) :
        w.usefulIdx[k] >= 1 => ~IsNoise(TrimSpace(w.lines[w.usefulIdx[k] + 1]))

Compacting == walk.pc \in {"loop", "done"} /\ walk.branch # "short"

\* the 0-based input positions of the retained lines, in output order
Retained == SelectSeq(walk.usefulIdx, LAMBDA k : k >= 0)

StrictlyIncreasing(q) == \A a, b \in 1..Len(q) : a < b => q[a] < q[b]

\* C21: on the compaction path the retained lines of the output stand for
\* strictly increasing positions of the input: no input line is emitted
\* twice and the retained lines keep their input order, the tail lines
\* appended when the budget is reached included.
C21_RetainedInInputOrder == Compacting => StrictlyIncreasing(Retained)

\* Up to the point where the budget is reached the retained lines are in
\* input order: only the tail can repeat a line.
WalkedLinesInOrder ==
    (Compacting /\ walk.branch # "budget") => StrictlyIncreasing(Retained)

\* The budget is reached right after a critical line was emitted, two lines
\* before the end: the tail emits that line a second time.
TailRepeatsCriticalLine ==
    /\ walk.pc = "done"
    /\ walk.branch = "budget"
    /\ walk.i = Len(walk.lines) - 3
    /\ \E a, b \in 1..Len(walk.usefulIdx) :
          a < b /\ walk.usefulIdx[a] = walk.i /\ walk.usefulIdx[b] = walk.i

\* the count N of the marker "[... N lines omitted ...]" at position j of
\* the output
MarkerCount(j) ==
    CHOOSE n \in 1..(2 * Len(walk.lines)) : walk.usefulLines[j] = OmittedMarker(n)

RECURSIVE MarkerSumTo(_)
MarkerSumTo(j) ==
    IF j = 0 THEN 0
    ELSE MarkerSumTo(j - 1) + (IF walk.usefulIdx[j] = -1 THEN MarkerCount(j) ELSE 0)

\* the sum of the counts of all markers of the output
MarkerSum == MarkerSumTo(Len(walk.usefulIdx))

\* the input positions (0-based) that are emitted
EmittedPositions == { walk.usefulIdx[j] : j \in 1..Len(walk.usefulIdx) } \ {-1}

\* C22: on the compaction path every input line is either emitted or counted
\* in exactly one marker: the number of emitted input lines plus the sum of
\* the marker counts is the number of input lines.
C22_OmissionsAccounted ==
    (Compacting /\ walk.pc = "done") =>
        Cardinality(EmittedPositions) + MarkerSum = Len(walk.lines)

\* The final marker announces an omission although every input line is in
\* the output.
MarkerWithNothingOmitted ==
    /\ walk.pc = "done"
    /\ walk.branch = "budget"
    /\ walk.omittedLines > 0
    /\ EmittedPositions = 0..(Len(walk.lines) - 1)

\* The walk ends below the budget: lines are left out and no marker says so.
OmittedWithoutMarker ==
    /\ walk.pc = "done"
    /\ walk.branch = "exit"
    /\ \A k \in 1..Len(walk.lines) : ~IsNoise(TrimSpace(walk.lines[k]))
    /\ MarkerSum = 0
    /\ Cardinality(EmittedPositions) < Len(walk.lines)

\* lines[k] of the code, trimmed
TrimmedAt(k) == TrimSpace(walk.lines[k + 1])

\* the position of the last critical line walked (0: none yet); the walk has
\* passed the positions 1..walk.i
LastCriticalWalked ==
    LET crit == { k \in 1..walk.i :
                    ~IsNoise(TrimmedAt(k)) /\ IsCritical(TrimmedAt(k)) }
    IN  IF crit = {} THEN 0 ELSE CHOOSE k \in crit : \A j \in crit : j <= k

\* the positions walked since then whose lines are neither empty nor made of
\* symbols only: the non-critical lines the walk has not skipped
SinceLastCritical ==
    { k \in (LastCriticalWalked + 1)..walk.i : ~IsNoise(TrimmedAt(k)) }

\* ... and the most recent two of them
RecentContext ==
    { k \in SinceLastCritical :
        Cardinality({ j \in SinceLastCritical : j > k }) < 2 }

\* the markers a step appends carry the count computed in that step, which
\* is at least 1
MarkersCountAtLeastOne ==
    \A j \in (Len(walk.usefulIdx) + 1)..Len(walk'.usefulIdx) :
        walk'.usefulIdx[j] = -1
            => /\ walk'.omittedLines >= 1
               /\ walk'.usefulLines[j] = OmittedMarker(walk'.omittedLines)

\* C23: at every step of the walk the context buffer holds at most 2 lines,
\* they are the most recent non-critical lines, neither empty nor symbols
\* only, seen since the last critical line, oldest first, and the buffer is
\* never longer than the skip counter; so the count computed at a critical
\* line is never negative and a marker is only emitted with a count >= 1.
C23_ContextBufferBounded ==
    /\ [](Compacting =>
            /\ Len(walk.contextBuffer) <= 2
            /\ Len(walk.bufIdx) = Len(walk.contextBuffer)
            /\ StrictlyIncreasing(walk.bufIdx)
            /\ { walk.bufIdx[j] : j \in 1..Len(walk.bufIdx) } = RecentContext
            /\ \A j \in 1..Len(walk.bufIdx) :
                  walk.contextBuffer[j] = TrimmedAt(walk.bufIdx[j])
            /\ Len(walk.contextBuffer) <= walk.cutLinesCount
            /\ walk.cutLinesCount = Cardinality(SinceLastCritical))
    /\ [][ walk.pc = "loop"
            => /\ walk'.branch = "critical" => walk'.omittedLines >= 0
               /\ MarkersCountAtLeastOne ]_vars

\* three ordinary lines were walked, the oldest was evicted, and the critical
\* line that follows emitted a marker counting that one line before the two
\* buffered lines
C23_Witness ==
    /\ walk.pc = "loop"
    /\ walk.branch = "critical"
    /\ walk.i = 4
    /\ walk.omittedLines = 1
    /\ walk.usefulIdx = <<0, -1, 2, 3, 4>>
    /\ walk.contextBuffer = <<>>

\* With "non-blank" read as "not empty after trimming" the buffer would
\* hold a symbol-only line; it never does.
BufferHoldsSymbolLines ==
    Compacting =>
        LET since == { k \in (LastCriticalWalked + 1)..walk.i : TrimmedAt(k) # <<>> }
        IN  { walk.bufIdx[j] : j \in 1..Len(walk.bufIdx) }
                = { k \in since : Cardinality({ j \in since : j > k }) < 2 }

(***************************************************************************)
(* SpecExample: ExtractUsefulErrorDefault on the texts of 20 lines, none   *)
(* blank, of which only line 3 and line 15 (counted from 0) are critical:  *)
(* they say "failed".  The other lines are plain, or, at the positions of  *)
(* SymbolPositions, made of symbols only.                                  *)
(***************************************************************************)
SymbolPositions == {1, 2, 13, 14, 17, 18, 19}

ExampleLine(k, symbols) ==
    IF k \in {3, 15} THEN <<"step", " ", "failed">>
    ELSE IF k \in symbols THEN <<"~", "=">>
    ELSE <<"x">>

ExampleText(symbols) == Join([j \in 1..20 |-> ExampleLine(j - 1, symbols)])

InitExample ==
    /\ \E symbols \in SUBSET SymbolPositions :
          walk = [pc |-> "call", fullMessage |-> ExampleText(symbols),
                  maxOutputLines |-> DefaultMaxOutputLines]
    /\ report = EmptyReport
    /\ last = NoLast
    /\ IdleClassify
    /\ IdleCheckLogs
    /\ IdleController

SpecExample == InitExample /\ [][NextExtract]_vars

\* the positions in the output of source line k (0-based)
OutputAt(k) == { j \in 1..Len(walk.usefulIdx) : walk.usefulIdx[j] = k }

\* the number of context lines right before position j of the output
RECURSIVE ContextBefore(_)
ContextBefore(j) ==
    IF j <= 1 \/ walk.usefulIdx[j - 1] \in {-1, 0, 3, 15} THEN 0
    ELSE 1 + ContextBefore(j - 1)

\* C16: for a text of 20 lines, none blank, of which only line 3 and line 15
\* are critical, the output of ExtractUsefulErrorDefault holds line 0, both
\* critical lines, each after at most 2 lines of context, an omission marker
\* and the final up-to-three lines of the input, in at most 11 lines.
C16_TwentyLineExample ==
    walk.pc = "done" =>
        /\ walk.usefulIdx[1] = 0
        /\ OutputAt(3) # {} /\ OutputAt(15) # {}
        /\ \A j \in OutputAt(3) \cup OutputAt(15) : ContextBefore(j) <= 2
        /\ OutputAt(-1) # {}
        /\ \A k \in {17, 18, 19} :
              ~IsNoise(walk.lines[k + 1]) => OutputAt(k) # {}
        /\ Len(Split(walk.result)) <= 11

\* What the text whose other lines are all plain is compacted to: 12 lines,
\* with a last marker that announces 2 lines where line 16 alone is left out.
PlainExampleOutput ==
    (walk.pc = "done" /\ walk.fullMessage = ExampleText({})) =>
        /\ walk.usefulIdx = <<0, 1, 2, 3, -1, 13, 14, 15, -1, 17, 18, 19>>
        /\ walk.usefulLines[5] = OmittedMarker(9)
        /\ walk.usefulLines[9] = OmittedMarker(2)
        /\ Len(Split(walk.result)) = 12

\* What the text with symbol lines at 1 and 2 is compacted to: the walk ends
\* below the budget and nothing after line 15 is retained.
SymbolExampleOutput ==
    (walk.pc = "done" /\ walk.fullMessage = ExampleText({1, 2})) =>
        walk.usefulIdx = <<0, 3, -1, 13, 14, 15>>

(***************************************************************************)
(* SpecClassify: one run of ProcessLogsWithMessageChecks over any sequence *)
(* of at most MaxLogs of the records below.  The inner loop ranges over a  *)
(* Go map, so the selectors are reached in any order; reaching a selector  *)
(* the message does not contain changes nothing, so pending holds the      *)
(* selectors the message contains that are still to be reached.            *)
(***************************************************************************)
MaxLogs == 2

Rec(msg, extras) == [Msg |-> msg, Extras |-> extras]
NoFields == Map(<<>>)
\* a message of 10 lines, two of them critical
LongMessage ==
    Join(<< <<"Command failed:", " ", "rpm-lockfile-prototype">>, <<"x">>, <<"x">>,
            <<"x">>, <<"Error", " ", "x">>, <<"x">>, <<"~", "~">>, <<"x">>,
            <<FileNotFoundPrefix, "rpms.in.yaml", "'">>, <<"x">> >>)

SampleRecords ==
    { Rec(<<"Reached PR limit - skipping PR creation">>, NoFields),
      Rec(<<"DEBUG: ", "Reached PR limit - skipping PR creation", " (repo)">>, NoFields),
      Rec(<<"Base branch does not exist - skipping">>, Map([baseBranch |-> S("main")])),
      Rec(<<"Base branch does not exist - skipping">>,
          Map([baseBranch |-> Str(<<"/", "main", "/">>)])),
      Rec(<<"Base branch does not exist - skipping">>, Nil),
      Rec(<<"Base branch does not exist - skipping">>, NoFields),
      Rec(<<"Base branch does not exist - skipping">>, Map([baseBranch |-> Num(3)])),
      Rec(<<"Base branch does not exist - skipping">>,
          Map([baseBranch |-> Str(<<"/", "main">>)])),
      Rec(<<"Base branch does not exist - skipping">>, Map([baseBranch |-> S("/")])),
      Rec(<<"Config migration necessary">>,
          Map([newConfig |-> Map([extends |-> List(<<S("config:recommended")>>)])])),
      Rec(<<"Config migration necessary">>, NoFields),
      Rec(<<"Found renovate config errors">>,
          Map([errors |-> List(<<Map([topic |-> S("Config"), message |-> S("bad")]),
                                 S("junk"), Map([topic |-> S("Only")])>>)])),
      Rec(<<"Found renovate config errors">>, Map([errors |-> S("bad")])),
      Rec(<<"branches info extended">>,
          Map([branchesInformation |->
                 List(<<Map([result |-> S("update-not-scheduled"),
                             branchName |-> S("renovate/a"), prNo |-> Num(7),
                             prTitle |-> S("Update a")]),
                        Map([result |-> S("done"), branchName |-> S("renovate/b")]),
                        S("junk"),
                        Map([result |-> S("update-not-scheduled")])>>)])),
      Rec(<<"branches info extended">>, NoFields),
      Rec(<<"PR rebase requested=", "true">>, Map([branch |-> S("main")])),
      Rec(<<"PR rebase requested=", "false">>, Map([branch |-> S("main")])),
      Rec(<<"PR rebase requested=", "true">>, NoFields),
      Rec(<<"Renovate: ", "PR rebase requested=", "true">>,
          Map([branch |-> S("renovate/a")])),
      Rec(<<"rawExec err">>,
          Map([err |-> Map([message |-> Str(LongMessage),
                            options |-> Map([timeout |-> Num(900000)])]),
               branch |-> S("renovate/a"), durationMs |-> Num(12)])),
      Rec(<<"rawExec err">>,
          Map([err |-> Map([message |-> Str(<<"Failed to download metadata for repo">>)])])),
      Rec(<<"rawExec err">>, Map([err |-> Map([message |-> Num(3)])])),
      Rec(<<"rawExec err">>, Map([err |-> S("boom"), branch |-> S("renovate/a")])),
      Rec(<<"Ignoring upgrade collision">>,
          Map([depName |-> S("dep"), currentValue |-> S("1"),
               previousNewValue |-> S("2"), thisNewValue |-> S("3")])),
      Rec(<<"Ignoring upgrade collision">>, NoFields),
      Rec(<<"Platform-native commit: unknown error">>,
          Map([err |-> Map([message |-> S("denied"), task |-> Map([options |-> Num(1)])]),
               branch |-> S("renovate/a")])),
      Rec(<<"Platform-native commit: unknown error">>, NoFields),
      Rec(<<"Platform-native commit: unknown error">>, Map([err |-> S("boom")])),
      Rec(<<"rawExec err">>, NoFields),
      Rec(<<"Reached PR limit - skipping PR creation", "; ",
            "Repository has changed during renovation - aborting">>, NoFields),
      Rec(<<"File contents are invalid JSONC but parse using JSON5">>,
          Map([context |-> S("renovate.json")])),
      Rec(<<"Repository has changed during renovation - aborting">>, NoFields),
      Rec(<<"Passing repository-changed error up">>, Map([branch |-> S("renovate/a")])),
      Rec(<<"Repository has changed during renovation - aborting", "; ",
            "Passing repository-changed error up">>, NoFields),
      Rec(<<"Ignoring upgrade collision", " ", "Config migration necessary">>, NoFields),
      Rec(<<"Repository cloned">>, Map([branch |-> S("main")])) }

\* the selectors the message of line contains
Matching(line) == { s \in DOMAIN Selectors : StringsContains(line.Msg, s) }

InitClassify ==
    /\ logs \in UNION { [1..k -> SampleRecords] : k \in 0..MaxLogs }
    /\ Selectors = SelectorsAfterInit
    /\ report = EmptyReport
    /\ idx = 1
    /\ pending = IF Len(logs) >= 1 THEN Matching(logs[1]) ELSE {}
    /\ pcC = "run"
    /\ invoked = <<>>
    /\ last = NoLast
    /\ IdleWalk
    /\ IdleCheckLogs
    /\ IdleController

\* part_000:54-57: the handler of a selector the message contains returns
ClassifyInvoke ==
    /\ pcC = "run"
    /\ idx <= Len(logs)
    /\ \E s \in pending :
          LET res == CheckFunc(Selectors[s], logs[idx], report)
          IN  /\ ~res.panic
              /\ report' = res.rep
              /\ pending' = pending \ {s}
              /\ invoked' = Append(invoked, <<idx, s>>)
    /\ UNCHANGED <<Selectors, last, logs, idx, pcC, walk, cl, ps, hp, ef>>

\* ... or panics: nothing recovers, the run is over and returns nothing
ClassifyPanic ==
    /\ pcC = "run"
    /\ idx <= Len(logs)
    /\ \E s \in pending :
          LET res == CheckFunc(Selectors[s], logs[idx], report)
          IN  /\ res.panic
              /\ pcC' = "panicked"
              /\ pending' = pending \ {s}
              /\ invoked' = Append(invoked, <<idx, s>>)
    /\ UNCHANGED <<Selectors, report, last, logs, idx, walk, cl, ps, hp, ef>>

\* the outer loop goes on to the next record
ClassifyNextRecord ==
    /\ pcC = "run"
    /\ idx <= Len(logs)
    /\ pending = {}
    /\ idx' = idx + 1
    /\ pending' = IF idx + 1 <= Len(logs) THEN Matching(logs[idx + 1]) ELSE {}
    /\ UNCHANGED <<Selectors, report, last, logs, pcC, invoked, walk, cl, ps, hp, ef>>

\* part_000:61: return report.Errors, report.Warnings, report.Infos, nil
ClassifyReturn ==
    /\ pcC = "run"
    /\ idx > Len(logs)
    /\ pcC' = "returned"
    /\ UNCHANGED <<Selectors, report, last, logs, idx, pending, invoked, walk, cl, ps, hp, ef>>

NextClassify == ClassifyInvoke \/ ClassifyPanic \/ ClassifyNextRecord \/ ClassifyReturn

SpecClassify == InitClassify /\ [][NextClassify]_vars

\* C2: classification over any finite sequence of records runs to completion
\* and returns a report; no record makes a handler panic.
C2_NeverPanics == pcC # "panicked"

\* T occurs in msg as a literal substring
IsInfix(T, msg) == \E pre, post \in 0..Len(msg) :
    /\ pre + Len(T) + post = Len(msg)
    /\ \A k \in 1..Len(T) : msg[pre + k] = T[k]

\* the number of invocations of the handler of T for record i
Invocations(i, T) == Cardinality({ k \in 1..Len(invoked) : invoked[k] = <<i, T>> })

\* every entry of sequence a is an entry of sequence b
Within(a, b) == \A k \in 1..Len(a) : Contains(b, a[k])

\* the findings of the handler of T run alone on record line
Alone(T, line) == CheckFunc(SelectorsAfterInit[T], line, EmptyReport).rep

\* what C3 says of the records of logs, the invocations made and the report rep
MatchingHandlersRan(rep) ==
    /\ \A i \in 1..Len(logs), T \in DOMAIN SelectorsAfterInit :
          IF IsInfix(T, logs[i].Msg)
          THEN /\ Invocations(i, T) = 1
               /\ Within(Alone(T, logs[i]).Errors, rep.Errors)
               /\ Within(Alone(T, logs[i]).Warnings, rep.Warnings)
               /\ Within(Alone(T, logs[i]).Infos, rep.Infos)
          ELSE Invocations(i, T) = 0
    /\ LET found(cat) ==
              UNION { { Alone(T, logs[i])[cat][k] : k \in 1..Len(Alone(T, logs[i])[cat]) } :
                      <<i, T>> \in { p \in (1..Len(logs)) \X DOMAIN SelectorsAfterInit :
                                       IsInfix(p[2], logs[p[1]].Msg) } }
       IN  /\ \A k \in 1..Len(rep.Errors) : rep.Errors[k] \in found("Errors")
           /\ \A k \in 1..Len(rep.Warnings) : rep.Warnings[k] \in found("Warnings")
           /\ \A k \in 1..Len(rep.Infos) : rep.Infos[k] \in found("Infos")

\* C3: when classification is over, every record whose message contains a
\* registered trigger T had T's handler invoked exactly once, the report the
\* caller gets holds at least the findings of that handler run alone on the
\* record, and a record with no trigger in its message added no finding.  A
\* run a handler's panic ended hands its caller no report.
C3_MatchingHandlersRun ==
    /\ pcC = "returned" => MatchingHandlersRan(report)
    /\ pcC = "panicked" => MatchingHandlersRan(EmptyReport)

\* The part of C3 that holds: the runs that return.
ReturnedRunsMatch == pcC = "returned" => MatchingHandlersRan(report)

\* a run returned after a record with the trigger inside its message and a
\* record with two triggers, with the findings of all three handlers
ReturnedRunsMatch_Witness ==
    /\ pcC = "returned"
    /\ Len(logs) = 2
    /\ logs[1].Msg = <<"DEBUG: ", "Reached PR limit - skipping PR creation", " (repo)">>
    /\ Len(logs[2].Msg) = 3
    /\ Len(invoked) = 3
    /\ Len(report.Warnings) = 1
    /\ Len(report.Errors) = 2

\* the extra fields a handler reads, each with the type it is used as
\* ("any": formatted whatever it is)
FieldsRead(name) ==
    CASE name = "baseBranchDoesNotExist" -> { <<"baseBranch", "string">> }
      [] name = "configMigrationNecessary" -> { <<"newConfig", "map">> }
      [] name = "renovateConfigErrors" -> { <<"errors", "list">> }
      [] name = "upgradesAwaitingSchedule" -> { <<"branchesInformation", "list">> }
      [] name = "checkForRebaseRequests" -> { <<"branch", "any">> }
      [] name = "rawExecError" ->
            { <<"err", "map">>, <<"branch", "any">>, <<"durationMs", "any">> }
      [] name = "upgradeCollision" ->
            { <<"depName", "any">>, <<"currentValue", "any">>,
              <<"previousNewValue", "any">>, <<"thisNewValue", "any">> }
      [] name = "platformCommitError" -> { <<"err", "map">>, <<"branch", "any">> }
      [] name = "invalidJSONConfig" -> { <<"context", "any">> }
      [] name = "branchErrorDuringRenovation" -> { <<"branch", "any">> }
      [] OTHER -> {}

\* a field the handler reads is absent from the record or has the wrong type
Misshaped(name, line) ==
    \E f \in FieldsRead(name) :
        \/ Extra(line, f[1]).t = "nil"
        \/ f[2] # "any" /\ Extra(line, f[1]).t # f[2]

\* C9: when an extra field a handler reads is absent or has the wrong type,
\* the handler neither fails nor appends a finding: Errors, Warnings and Infos
\* are unchanged by that invocation.
C9_MisshapedIsSilent ==
    [][ (pcC = "run" /\ Len(invoked') = Len(invoked) + 1
           /\ Misshaped(Selectors[invoked'[Len(invoked')][2]], logs[idx]))
        => (pcC' # "panicked" /\ report' = report) ]_vars

\* the step is an invocation, for the record at idx, of the handler
\* registered under selector
Invokes(selector) ==
    /\ pcC = "run"
    /\ Len(invoked') = Len(invoked) + 1
    /\ invoked'[Len(invoked')] = <<idx, selector>>

\* the Error C12 promises for a record
BaseBranchFinding(line) ==
    LET b == Extra(line, "baseBranch")
        slashed == b.t = "string" /\ Len(b.q) >= 1 /\ b.q[1] = "/" /\ b.q[Len(b.q)] = "/"
    IN  IF b.t = "string" /\ ~slashed
        THEN "Base branch does not exist | hint: baseBranch must be a JS pattern like: /"
                \o Flat(b.q) \o "/"
        ELSE "Base branch does not exist | Hint: Check baseBranchPatterns in renovate.json"

MainBranchRecord ==
    Rec(<<"Base branch does not exist - skipping">>, Map([baseBranch |-> S("main")]))

\* C12: every invocation of the base-branch handler appends exactly one Error
\* and nothing to Warnings or Infos; the hint recommends "/<baseBranch>/"
\* exactly when baseBranch is a string that does not both start and end with
\* "/", and is the generic hint otherwise.  Classification of the one record
\* with baseBranch "main" yields exactly one Error, recommending /main/.
C12_BaseBranchHint ==
    /\ [][ Invokes(<<"Base branch does not exist - skipping">>)
            => /\ pcC' = "run"
               /\ report'.Errors = Append(report.Errors, BaseBranchFinding(logs[idx]))
               /\ report'.Warnings = report.Warnings
               /\ report'.Infos = report.Infos ]_vars
    /\ [](pcC = "returned" /\ logs = <<MainBranchRecord>>
            => report = [Errors |-> <<"Base branch does not exist | hint: baseBranch must be a JS pattern like: /main/">>,
                         Warnings |-> <<>>, Infos |-> <<>>])

\* the run over the record with baseBranch "main" returned, after a run of
\* the handler on a branch name that only starts with "/"
C12_Witness ==
    /\ pcC = "returned"
    /\ Len(logs) = 2
    /\ logs[1] = Rec(<<"Base branch does not exist - skipping">>,
                     Map([baseBranch |-> Str(<<"/", "main">>)]))
    /\ logs[2] = MainBranchRecord
    /\ report.Errors = <<"Base branch does not exist | hint: baseBranch must be a JS pattern like: //main/",
                         "Base branch does not exist | hint: baseBranch must be a JS pattern like: /main/">>

RebaseSelector == <<"PR rebase requested=", "true">>

\* C13: a record whose message contains "PR rebase requested=true" yields
\* exactly one Info finding, carrying the record's branch, and nothing in
\* Errors or Warnings; a record whose message is "PR rebase requested=false"
\* yields no finding in any category.
C13_RebaseRequests ==
    /\ [][ Invokes(RebaseSelector)
            => /\ pcC' = "run"
               /\ report'.Infos =
                     Append(report.Infos,
                            "PR rebase requested | Branch: " \o FmtV(Extra(logs[idx], "branch")))
               /\ report'.Errors = report.Errors
               /\ report'.Warnings = report.Warnings ]_vars
    /\ [](pcC = "returned" /\ Len(logs) = 1
            => /\ IsInfix(RebaseSelector, logs[1].Msg)
                    => /\ Len(report.Infos) = 1
                       /\ Invocations(1, RebaseSelector) = 1
                       /\ report.Errors = <<>> /\ report.Warnings = <<>>
               /\ logs[1].Msg = <<"PR rebase requested=", "false">> => report = EmptyReport
               /\ logs[1] = Rec(RebaseSelector, Map([branch |-> S("main")]))
                    => report.Infos = <<"PR rebase requested | Branch: main">>)

\* a run over a "=false" record and a "=true" record of branch main returned
\* with the one Info of the second
C13_Witness ==
    /\ pcC = "returned"
    /\ Len(logs) = 2
    /\ logs[1].Msg = <<"PR rebase requested=", "false">>
    /\ logs[2] = Rec(RebaseSelector, Map([branch |-> S("main")]))
    /\ report = [Errors |-> <<>>, Warnings |-> <<>>,
                 Infos |-> <<"PR rebase requested | Branch: main">>]

\* the step appends exactly one entry to Errors and changes nothing else of
\* the report
AppendsOneError ==
    /\ Len(report'.Errors) = Len(report.Errors) + 1
    /\ SubSeq(report'.Errors, 1, Len(report.Errors)) = report.Errors
    /\ report'.Warnings = report.Warnings
    /\ report'.Infos = report.Infos

\* err.message of a record as rawExecError reads it: "" unless a string
ErrMessage(line) ==
    LET m == Get(Extra(line, "err").m, "message")
    IN  IF m.t = "string" THEN m.q ELSE <<>>

\* the end of a raw-execution Error that carries the compacted form of
\* message, after whatever fields come first
CarriesCompacted(text, line) ==
    \E timeout \in {<<>>} \cup
                     (IF Get(Extra(line, "err").m, "options").t = "map"
                      THEN {<<S("Timeout"),
                              Get(Get(Extra(line, "err").m, "options").m, "timeout")>>}
                      ELSE {}),
       hint1 \in {<<>>, <<S("Hint"), S("Possible activation key issue (Failed to download metadata for repo ... Cannot download repomd.xml)")>>},
       hint2 \in {<<>>} \cup { <<S("Hint"), S("File not found: " \o p \o ", check rpms.in.yaml configuration")>> :
                                  p \in PathTokens } :
        text = formatSimpleMessage("Error executing command",
                   <<S("Branch"), Extra(line, "branch"),
                     S("Duration"), Extra(line, "durationMs")>> \o timeout \o hint1 \o hint2)
               \o "\nMessage: "
               \o Flat(ExtractUsefulError(ErrMessage(line), DefaultMaxOutputLines))
               \o "\n | \nFull message: " \o Flat(ErrMessage(line))

\* C17: rawExecError and platformCommitError leave the report unchanged when
\* extra["err"] is absent or no mapping; when it is a mapping each appends
\* exactly one Error and nothing to Warnings or Infos, and the Error of
\* rawExecError carries the compacted form of err.message, also when
\* err.message is missing or no string.
C17_ErrMustBeMapping ==
    [][ /\ Invokes(<<"rawExec err">>)
            => /\ pcC' = "run"
               /\ IF Extra(logs[idx], "err").t # "map" THEN report' = report
                  ELSE /\ AppendsOneError
                       /\ CarriesCompacted(report'.Errors[Len(report'.Errors)], logs[idx])
        /\ Invokes(<<"Platform-native commit: unknown error">>)
            => /\ pcC' = "run"
               /\ IF Extra(logs[idx], "err").t # "map" THEN report' = report
                  ELSE AppendsOneError ]_vars

\* a run returned with the one Error of a raw-execution record whose message
\* of 10 lines was compacted, after a record whose err is a string
C17_Witness ==
    /\ pcC = "returned"
    /\ Len(logs) = 2
    /\ logs[1] = Rec(<<"rawExec err">>, Map([err |-> S("boom"), branch |-> S("renovate/a")]))
    /\ logs[2].Msg = <<"rawExec err">>
    /\ Extra(logs[2], "err").t = "map"
    /\ ErrMessage(logs[2]) = LongMessage
    /\ ExtractUsefulErrorDefault(LongMessage) # LongMessage
    /\ Len(report.Errors) = 1
    /\ report.Warnings = <<>> /\ report.Infos = <<>>

RECURSIVE InOrderFrom(_, _, _)
\* the run over logs that reaches the selectors in the order of init(), from
\* record i and registration j on, with report r
InOrderFrom(i, j, r) ==
    IF i > Len(logs) THEN Returned(r)
    ELSE IF j > Len(InitRegistrations) THEN InOrderFrom(i + 1, 1, r)
    ELSE IF IsInfix(SelectorTokens(InitRegistrations[j][1]), logs[i].Msg)
    THEN LET res == CheckFunc(InitRegistrations[j][2], logs[i], r)
         IN  IF res.panic THEN res ELSE InOrderFrom(i, j + 1, res.rep)
    ELSE InOrderFrom(i, j + 1, r)

\* sequences a and b hold the same entries the same number of times
SameMultiset(a, b) ==
    /\ Len(a) = Len(b)
    /\ \A k \in 1..Len(a) :
          Cardinality({ j \in 1..Len(a) : a[j] = a[k] })
              = Cardinality({ j \in 1..Len(b) : b[j] = a[k] })

\* C18: whatever the order in which the matching handlers of a record are
\* invoked, the findings are the same as multisets per category: a run that
\* returns holds, in Errors, Warnings and Infos, the entries of the run that
\* takes the selectors in the order of init(), and a run ends in a panic only
\* if that run does.
C18_OrderIndependent ==
    LET inOrder == InOrderFrom(1, 1, EmptyReport)
    IN  /\ pcC = "returned" =>
              /\ ~inOrder.panic
              /\ SameMultiset(report.Errors, inOrder.rep.Errors)
              /\ SameMultiset(report.Warnings, inOrder.rep.Warnings)
              /\ SameMultiset(report.Infos, inOrder.rep.Infos)
        /\ pcC = "panicked" => inOrder.panic

\* a run over a record with two triggers returned with the two Errors in the
\* other order than the run in the order of init()
C18_Witness ==
    /\ pcC = "returned"
    /\ Len(logs) = 1
    /\ Cardinality(Matching(logs[1])) = 2
    /\ Len(report.Errors) = 2
    /\ report.Errors # InOrderFrom(1, 1, EmptyReport).rep.Errors

(***************************************************************************)
(* SpecCheckLogs: one call of checkLogs on any non-empty sequence of at    *)
(* most MaxEntries of the entries below.                                   *)
(***************************************************************************)
MaxEntries == 3

Entry(level, message, extras) ==
    [Level |-> level, Message |-> message, Container |-> "step-renovate",
     Extras |-> extras]

\* "m1: boom" with no detail and "m1" with the detail "boom" are formatted
\* alike.
SampleEntries ==
    { Entry("ERROR", "m1", NoFields),
      Entry("ERROR", "m1: boom", NoFields),
      Entry("ERROR", "m1", Map([err |-> Map([message |-> S("boom")])])),
      Entry("ERROR", "m2", Map([errorMessage |-> S("late")])),
      Entry("FATAL", "m1", NoFields),
      Entry("FATAL", "m2", Map([err |-> S("not a map"), errorMessage |-> S("late")])),
      Entry("INFO", "m1", NoFields),
      Entry("UNKNOWN", "raw line", Nil) }

InitCheckLogs ==
    /\ \E ls \in UNION { [1..k -> SampleEntries] : k \in 1..MaxEntries } :
          cl = [pc |-> "count", logs |-> ls, simpleReason |-> "Failed", i |-> Len(ls),
                errorsMap |-> <<>>, fatalMap |-> <<>>,
                errors |-> LevelSummary(<<>>, <<>>, "ERROR"),
                fatal |-> LevelSummary(<<>>, <<>>, "FATAL"), result |-> ""]
    /\ report = EmptyReport
    /\ last = NoLast
    /\ IdleClassify
    /\ IdleWalk
    /\ IdleController

NotCheckLogs == <<Selectors, report, last, logs, idx, pending, pcC, invoked, walk, ps, hp, ef>>

\* log_reader.go:249-259: one entry of the loop, from the last to the first
CheckLogsCount ==
    /\ cl.pc = "count"
    /\ cl.i >= 1
    /\ LET logEntry == cl.logs[cl.i]
       IN  cl' = [cl EXCEPT
                    !.i = @ - 1,
                    !.fatalMap = IF logEntry.Level = "FATAL"
                                 THEN Increment(@, buildErrorMessage(logEntry)) ELSE @,
                    !.errorsMap = IF logEntry.Level = "ERROR"
                                  THEN Increment(@, buildErrorMessage(logEntry)) ELSE @]
    /\ UNCHANGED NotCheckLogs

\* log_reader.go:262-313: the two summaries, each map ranged over in any
\* order, and the result
CheckLogsSummarise ==
    /\ cl.pc = "count"
    /\ cl.i = 0
    /\ \E eo \in RangeOrders(cl.errorsMap), fo \in RangeOrders(cl.fatalMap) :
          LET e == LevelSummary(cl.errorsMap, eo, "ERROR")
              f == LevelSummary(cl.fatalMap, fo, "FATAL")
          IN  cl' = [cl EXCEPT
                       !.pc = "done", !.errors = e, !.fatal = f,
                       !.result = CheckLogsResult(cl.logs[Len(cl.logs)].Container,
                                                  e.text, f.text, cl.simpleReason)]
    /\ UNCHANGED NotCheckLogs

NextCheckLogs == CheckLogsCount \/ CheckLogsSummarise

SpecCheckLogs == InitCheckLogs /\ [][NextCheckLogs]_vars

\* the entries of ls of a level, formatted
FormattedAt(ls, level) ==
    { buildErrorMessage(ls[k]) : k \in { j \in 1..Len(ls) : ls[j].Level = level } }
\* how many entries of ls of a level are formatted as m
Occurrences(ls, level, m) ==
    Cardinality({ k \in 1..Len(ls) : ls[k].Level = level /\ buildErrorMessage(ls[k]) = m })

\* the summary s of a level is as C10 says
SummaryAsClaimed(ls, level, s) ==
    LET distinct == FormattedAt(ls, level)
        item(m) == IF Occurrences(ls, level, m) > 1
                   THEN ToString(Occurrences(ls, level, m)) \o "x " \o m ELSE m
    IN  /\ Len(s.items) = Cardinality(distinct)
        /\ \A m \in distinct :
              Cardinality({ k \in 1..Len(s.items) : s.items[k] = item(m) }) = 1
        /\ distinct # {} =>
              /\ s.total = Cardinality({ k \in 1..Len(ls) : ls[k].Level = level })
              /\ s.text = ToString(s.total) \o " " \o level \o ":\n" \o ConcatAll(s.items)

\* C10: in the summary of checkLogs each distinct formatted ERROR message
\* appears exactly once, prefixed by "Nx " when it occurred N > 1 times and
\* unprefixed when it occurred once, and the number of the "<k> ERROR:" header
\* is the number of ERROR entries; the same for FATAL.
C10_DuplicatesCounted ==
    cl.pc = "done" =>
        /\ SummaryAsClaimed(cl.logs, "ERROR", cl.errors)
        /\ SummaryAsClaimed(cl.logs, "FATAL", cl.fatal)

\* two ERROR entries that are formatted alike gave one "2x" item, beside an
\* item of a message that occurred once
C10_Witness ==
    /\ cl.pc = "done"
    /\ Len(cl.logs) = 3
    /\ cl.errors.total = 3
    /\ cl.errors.items = <<"2x m1: boom\n", "m1\n">>

(***************************************************************************)
(* SpecStream: one call of processLogStream on a pod of two containers,    *)
(* each with a log stream of at most MaxStreamLines of the lines below or  *)
(* with a stream that cannot be opened.                                    *)
(***************************************************************************)
MaxStreamLines == 2

PodName == "renovate-pod"
ContainerNames == <<"prepare", "step-renovate">>
\* a stream that cannot be opened (req.Stream returns an error)
StreamErr == [ok |-> FALSE, lines |-> <<>>]

SampleLines ==
    { RawLine("{level:50,msg:boom,time:2025-01-02T03:04:05Z}",
              Map([level |-> Num(50), msg |-> S("boom"),
                   time |-> S("2025-01-02T03:04:05Z")]), FALSE),
      RawLine("{level:35,msg:7,time:soon,branch:main}",
              Map([level |-> Num(35), msg |-> Num(7), time |-> S("soon"),
                   branch |-> S("main")]), FALSE),
      RawLine("+ renovate --version", NotJSON, FALSE),
      RawLine("[1]", List(<<Num(1)>>), FALSE),
      RawLine("{level:50,msg:long...}", Map([level |-> Num(50), msg |-> S("long...")]), TRUE) }

Streams ==
    {StreamErr} \cup { [ok |-> TRUE, lines |-> q] :
                         q \in UNION { [1..k -> SampleLines] : k \in 0..MaxStreamLines } }

InitStream ==
    /\ \E ss \in [1..Len(ContainerNames) -> Streams] :
          ps = [pc |-> "open", streams |-> ss, c |-> 1, k |-> 0, structuredLogs |-> <<>>,
                read |-> <<>>, err |-> FALSE]
    /\ report = EmptyReport
    /\ last = NoLast
    /\ IdleClassify
    /\ IdleWalk
    /\ IdleCheckLogs
    /\ IdleCompletion
    /\ IdleFilter

NotStream == <<Selectors, report, last, logs, idx, pending, pcC, invoked, walk, cl, hp, ef>>

\* log_reader.go:134-144: the stream of the next container opens ...
StreamOpen ==
    /\ ps.pc = "open"
    /\ ps.c <= Len(ps.streams)
    /\ ps.streams[ps.c].ok
    /\ ps' = [ps EXCEPT !.pc = "scan", !.k = 1]
    /\ UNCHANGED NotStream

\* ... or does not: continue with the next container
StreamSkip ==
    /\ ps.pc = "open"
    /\ ps.c <= Len(ps.streams)
    /\ ~ps.streams[ps.c].ok
    /\ ps' = [ps EXCEPT !.c = @ + 1]
    /\ UNCHANGED NotStream

\* log_reader.go:148-166: Scan delivers a line; read records the lines
\* delivered, <<container, line number>>
ScanLine ==
    /\ ps.pc = "scan"
    /\ ScanDelivers(ps.streams[ps.c].lines, ps.k)
    /\ ps' = [ps EXCEPT
                !.structuredLogs = RetainLine(@, ps.streams[ps.c].lines[ps.k],
                                              ContainerNames[ps.c], PodName),
                !.read = Append(@, <<ps.c, ps.k>>),
                !.k = @ + 1]
    /\ UNCHANGED NotStream

\* log_reader.go:148, 167: Scan returns false, the stream is closed
ScanEnd ==
    /\ ps.pc = "scan"
    /\ ~ScanDelivers(ps.streams[ps.c].lines, ps.k)
    /\ ps' = [ps EXCEPT !.pc = "open", !.c = @ + 1, !.k = 0]
    /\ UNCHANGED NotStream

\* log_reader.go:170-174
StreamReturn ==
    /\ ps.pc = "open"
    /\ ps.c > Len(ps.streams)
    /\ ps' = [ps EXCEPT !.pc = "returned", !.err = (Len(ps.structuredLogs) = 0)]
    /\ UNCHANGED NotStream

NextStream == StreamOpen \/ StreamSkip \/ ScanLine \/ ScanEnd \/ StreamReturn

SpecStream == InitStream /\ [][NextStream]_vars

\* the lines of the streams that opened, in container and line order
AllLines ==
    LET at(c) == [k \in 1..Len(ps.streams[c].lines) |-> <<c, k>>]
    IN  at(1) \o at(2)

\* the entry C11 promises for line k of container c
EntryFor(c, k) ==
    LET line == ps.streams[c].lines[k]
        parsed == parseLogLine(line, ContainerNames[c], PodName)
    IN  IF parsed.err
        THEN [Timestamp |-> "now", Level |-> "UNKNOWN", Message |-> line.text,
              Container |-> ContainerNames[c], Pod |-> PodName, Extras |-> Nil]
        ELSE parsed.entry

\* structuredLogs holds one entry per line of the sequence ls, in its order
OneEntryPerLine(ls) ==
    /\ Len(ps.structuredLogs) = Len(ls)
    /\ \A n \in 1..Len(ls) : ps.structuredLogs[n] = EntryFor(ls[n][1], ls[n][2])

EveryStreamLineRetained ==
    ps.pc = "returned" => OneEntryPerLine(AllLines)

MaxRegistrations == 3

CallSelectors ==
    { <<"rawExec err">>, <<"Config migration necessary">>, <<"Lock file error">>,
      <<"rawExec err", " ", "timeout">> }
CallCheckFuncs == {"rawExecError", "prLimitReached", "invalidJSONConfig"}

InitRegistry ==
    /\ Selectors = SelectorsAfterInit
    /\ last = NoLast
    /\ report = EmptyReport
    /\ logs = <<>>
    /\ idx = 0
    /\ pending = {}
    /\ pcC = "idle"
    /\ invoked = <<>>
    /\ IdleWalk
    /\ IdleCheckLogs
    /\ IdleController

\* checks.go:31-33; last records the call
CallRegisterSelector ==
    /\ last.n < MaxRegistrations
    /\ \E selector \in CallSelectors, checkFunc \in CallCheckFuncs :
          /\ Selectors' = RegisterSelector(Selectors, selector, checkFunc)
          /\ last' = [op |-> "RegisterSelector", selector |-> selector,
                      checkFunc |-> checkFunc, n |-> last.n + 1]
    /\ UNCHANGED <<report, logs, idx, pending, pcC, invoked, walk, cl, ps, hp, ef>>

NextRegistry == CallRegisterSelector

SpecRegistry == InitRegistry /\ [][NextRegistry]_vars

\* C14: RegisterSelector with a trigger that is registered already replaces
\* the handler (the last registration wins), leaves the number of triggers
\* and every other trigger's handler unchanged; with a new trigger it adds
\* exactly one mapping.  No call fails.
C14_LastRegistrationWins ==
    [][ last'.n = last.n + 1
        => LET t == last'.selector
           IN  /\ t \in DOMAIN Selectors'
               /\ Selectors'[t] = last'.checkFunc
               /\ \A k \in DOMAIN Selectors \ {t} :
                      k \in DOMAIN Selectors' /\ Selectors'[k] = Selectors[k]
               /\ DOMAIN Selectors' \subseteq DOMAIN Selectors \cup {t}
               /\ Cardinality(DOMAIN Selectors') =
                      Cardinality(DOMAIN Selectors) + (IF t \in DOMAIN Selectors THEN 0 ELSE 1) ]_vars

\* a trigger of init() has been given another handler, then its first one
\* again, and one new trigger has been added
C14_Witness ==
    /\ last.n = MaxRegistrations
    /\ last.op = "RegisterSelector"
    /\ last.selector = <<"Config migration necessary">>
    /\ Selectors[<<"Config migration necessary">>] = "invalidJSONConfig"
    /\ Selectors[<<"rawExec err">>] = "prLimitReached"
    /\ <<"Lock file error">> \in DOMAIN Selectors
    /\ Cardinality(DOMAIN Selectors) = Cardinality(DOMAIN SelectorsAfterInit) + 1

(***************************************************************************)
(* SpecCompletion: one call of handlePipelinerunCompletion, for every      *)
(* Succeeded condition, with and without KITE client and Component, for    *)
(* every outcome of GetFailedPodDetails and of each webhook request.  The  *)
(* handler is straight-line code whose requests end with their context,    *)
(* so a call that can take a step does.                                    *)
(***************************************************************************)
Conditions ==
    { [status |-> "nil", reason |-> ""],
      [status |-> "True", reason |-> "Succeeded"],
      [status |-> "False", reason |-> "Failed"],
      [status |-> "Unknown", reason |-> "Running"] }

PodOutcomes ==
    { [err |-> TRUE, FailureLogs |-> "", Error |-> <<>>, Warning |-> <<>>, Info |-> <<>>] }
    \cup { [err |-> FALSE, FailureLogs |-> "Container step-renovate exited",
             Error |-> e, Warning |-> w, Info |-> i] :
             e \in {<<>>, <<"e1", "e2">>}, w \in {<<>>, <<"w1">>}, i \in {<<>>, <<"i1">>} }

InitCompletion ==
    /\ \E c \in Conditions, k \in BOOLEAN, f \in BOOLEAN, p \in PodOutcomes :
          hp = [pc |-> "start", condition |-> c, kiteClient |-> k, componentFound |-> f,
                podDetails |-> p, failReason |-> "", next |-> 1, calls |-> <<>>,
                ret |-> "none"]
    /\ report = EmptyReport
    /\ last = NoLast
    /\ IdleClassify
    /\ IdleWalk
    /\ IdleCheckLogs
    /\ IdleStream
    /\ IdleFilter

NotCompletion == <<Selectors, report, last, logs, idx, pending, pcC, invoked, walk, cl, ps, ef>>

\* pipelinerun_controller.go:64-82: the three early returns
CompletionRefused ==
    /\ hp.pc = "start"
    /\ hp.condition.status = "nil" \/ ~hp.kiteClient \/ ~hp.componentFound
    /\ hp' = [hp EXCEPT !.pc = "returned", !.ret = "error"]
    /\ UNCHANGED NotCompletion

\* pipelinerun_controller.go:88-92: GetFailedPodDetails fails
PodDetailsFailed ==
    /\ hp.pc = "start"
    /\ hp.condition.status # "nil" /\ hp.kiteClient /\ hp.componentFound
    /\ hp.podDetails.err
    /\ hp' = OnPodDetailsError(hp)
    /\ UNCHANGED NotCompletion

\* pipelinerun_controller.go:93-94: ... or returns the details
PodDetailsFound ==
    /\ hp.pc = "start"
    /\ hp.condition.status # "nil" /\ hp.kiteClient /\ hp.componentFound
    /\ ~hp.podDetails.err
    /\ hp' = [hp EXCEPT !.pc = "custom", !.failReason = hp.podDetails.FailureLogs]
    /\ UNCHANGED NotCompletion

\* pipelinerun_controller.go:96-109, 160-162: a custom webhook with nothing
\* to send returns an error, which is logged
CustomWebhookSkipped ==
    /\ hp.pc = "custom"
    /\ CustomSkipped(CustomWebhooks(hp.podDetails)[hp.next][2])
    /\ hp' = [hp EXCEPT !.next = @ + 1,
                        !.pc = IF hp.next = Len(CustomWebhooks(hp.podDetails))
                               THEN "status" ELSE "custom"]
    /\ UNCHANGED NotCompletion

\* pipelinerun_controller.go:96-109, 163-176: a custom webhook is sent; the
\* request succeeds or fails, a failure is logged
CustomWebhookSent ==
    /\ hp.pc = "custom"
    /\ ~CustomSkipped(CustomWebhooks(hp.podDetails)[hp.next][2])
    /\ \E ok \in BOOLEAN :
          hp' = [hp EXCEPT
                   !.calls = Append(@, [name |-> "mintmaker-custom",
                                        type |-> CustomWebhooks(hp.podDetails)[hp.next][1],
                                        payload |-> "", ok |-> ok]),
                   !.next = @ + 1,
                   !.pc = IF hp.next = Len(CustomWebhooks(hp.podDetails))
                          THEN "status" ELSE "custom"]
    /\ UNCHANGED NotCompletion

\* pipelinerun_controller.go:112-126: the status webhook and the return
StatusWebhookSent ==
    /\ hp.pc = "status"
    /\ \E ok \in BOOLEAN :
          hp' = [hp EXCEPT
                   !.calls = Append(@, [name |-> StatusWebhook(hp).name,
                                        type |-> StatusWebhook(hp).type,
                                        payload |-> StatusWebhook(hp).payload,
                                        ok |-> ok]),
                   !.pc = "returned",
                   !.ret = IF ok THEN "nil" ELSE "error"]
    /\ UNCHANGED NotCompletion

NextCompletion ==
    \/ CompletionRefused
    \/ PodDetailsFailed
    \/ PodDetailsFound
    \/ CustomWebhookSkipped
    \/ CustomWebhookSent
    \/ StatusWebhookSent

SpecCompletion == InitCompletion /\ [][NextCompletion]_vars /\ WF_vars(NextCompletion)

\* the positions in hp.calls of the status webhooks
StatusCalls ==
    { k \in 1..Len(hp.calls) : hp.calls[k].name \in {"pipeline-success", "pipeline-failure"} }

\* the call goes past the three early returns
Accepted ==
    /\ hp.pc # "idle"
    /\ hp.condition.status # "nil" /\ hp.kiteClient /\ hp.componentFound

\* C19: when the Succeeded condition is set, the KITE client is present and
\* the Component is fetched, exactly one status webhook is attempted, after
\* all custom webhooks: pipeline-success if the condition is true, otherwise
\* pipeline-failure; neither failing pod details nor a failed or skipped
\* custom webhook prevents it.
C19_StatusWebhookOnceAndLast ==
    /\ [](Accepted =>
            /\ Cardinality(StatusCalls) <= 1
            /\ StatusCalls \subseteq {Len(hp.calls)}
            /\ hp.pc = "returned" =>
                  /\ StatusCalls = {Len(hp.calls)}
                  /\ hp.calls[Len(hp.calls)].name =
                        (IF hp.condition.status = "True" THEN "pipeline-success"
                         ELSE "pipeline-failure"))
    /\ (Accepted ~> (hp.pc = "returned" /\ StatusCalls # {}))

\* pipeline-failure was attempted after two custom webhooks, the first of
\* which failed, the warning one having been skipped
C19_Witness ==
    /\ hp.pc = "returned"
    /\ Len(hp.calls) = 3
    /\ hp.calls[1].type = "error" /\ ~hp.calls[1].ok
    /\ hp.calls[2].type = "info"
    /\ hp.calls[3].name = "pipeline-failure"
    /\ hp.calls[3].payload = "Container step-renovate exited"

(***************************************************************************)
(* SpecFilter: any sequence of at most MaxEvents PipelineRun events handed *)
(* to the event filter.                                                    *)
(***************************************************************************)
MaxEvents == 3

Events ==
    [kind : {"Create", "Delete", "Generic", "Update"},
     namespace : {MintMakerNamespaceName, "tenant"},
     oldDone : BOOLEAN, newDone : BOOLEAN, completionTime : BOOLEAN]

InitFilter ==
    /\ ef = [pc |-> "watch", n |-> 0, handled |-> 0]
    /\ report = EmptyReport
    /\ last = NoLast
    /\ IdleClassify
    /\ IdleWalk
    /\ IdleCheckLogs
    /\ IdleStream
    /\ IdleCompletion

NotFilter == <<Selectors, report, last, logs, idx, pending, pcC, invoked, walk, cl, ps, hp>>

\* the filter is handed event e; ef.handled counts the calls of
\* handlePipelinerunCompletion so far
Filter(e) ==
    /\ ef.pc = "watch"
    /\ ef.n < MaxEvents
    /\ ef' = [pc |-> "watch", n |-> ef.n + 1, event |-> e,
              passed |-> FilterEvent(e).passed,
              handled |-> ef.handled + FilterEvent(e).handled]
    /\ UNCHANGED NotFilter

\* pipelinerun_controller.go:186-188
CreateFunc == \E e \in Events : e.kind = "Create" /\ Filter(e)
\* pipelinerun_controller.go:189-191
DeleteFunc == \E e \in Events : e.kind = "Delete" /\ Filter(e)
\* pipelinerun_controller.go:192-223
UpdateFunc == \E e \in Events : e.kind = "Update" /\ Filter(e)
\* pipelinerun_controller.go:224-226
GenericFunc == \E e \in Events : e.kind = "Generic" /\ Filter(e)

NextFilter == CreateFunc \/ DeleteFunc \/ UpdateFunc \/ GenericFunc

SpecFilter == InitFilter /\ [][NextFilter]_vars

\* C20: the filter calls handlePipelinerunCompletion only on an update in
\* the MintMaker namespace whose old object is not done and whose new object
\* is done with a completion time, and at most once for it; Create, Delete
\* and Generic events, updates in other namespaces and updates that are no
\* transition from not done to done never call it and are filtered out.
C20_OnlyCompletionsHandled ==
    [][ ef'.n = ef.n + 1
        => LET e == ef'.event
               calls == ef'.handled - ef.handled
           IN  /\ calls \in {0, 1}
               /\ calls = 1 => /\ e.kind = "Update"
                               /\ e.namespace = MintMakerNamespaceName
                               /\ ~e.oldDone /\ e.newDone /\ e.completionTime
               /\ (\/ e.kind \in {"Create", "Delete", "Generic"}
                   \/ e.namespace # MintMakerNamespaceName
                   \/ ~(~e.oldDone /\ e.newDone))
                    => calls = 0 /\ ~ef'.passed ]_vars

\* a completion was handled and the next update of the same, done
\* PipelineRun was filtered out without a second call
C20_Witness ==
    /\ ef.pc = "watch"
    /\ ef.n = 2
    /\ ef.handled = 1
    /\ ef.event = [kind |-> "Update", namespace |-> MintMakerNamespaceName,
                   oldDone |-> TRUE, newDone |-> TRUE, completionTime |-> TRUE]
    /\ ~ef.passed

====
